---- MODULE Spec2Model ----
(***************************************************************************)
(* A model of jBREAD, a tree-walking interpreter: the Environment scope    *)
(* chain (src/src/interpreter/environment.rs), the Interpreter             *)
(* (src/src/interpreter/interpret.rs), the Scanner (src/src/scanner.rs),   *)
(* the Parser (src/src/parser.rs) and JuniorBread::run_file                *)
(* (src/src/lib.rs).                                                       *)
(*                                                                         *)
(* The specifications share the variables:                                 *)
(*   SpecEnv   the Environment operations called directly on a heap of     *)
(*             scopes, as the unit tests of interpret.rs call them;        *)
(*   Spec      Interpreter::interpret run on a program, one statement      *)
(*             handler per step;                                           *)
(*   SpecEval  Interpreter::interpret run on the programs that end with    *)
(*             one statement over an operator expression;                  *)
(*   SpecScan  Scanner::scan_tokens run on a source string, one            *)
(*             scan_single_token per step;                                 *)
(*   SpecParse the parsing functions of Parser run on a token sequence;    *)
(*   SpecRun   run_file: the scan, the parse and the interpretation of a   *)
(*             source, and the exit status.                                *)
(***************************************************************************)
EXTENDS Integers, Sequences, FiniteSets, TLC

VARIABLES
    envs,       \* the Rc<RefCell<Environment>> cells: scope id -> Environment
    frames,     \* the active Interpreter values, outermost first
    output,     \* the lines written by println!
    result,     \* what interpret returned ("Running" while it has not)
    call,       \* the operation that ran last
    ret,        \* what the operation that ran last returned
    source,     \* Scanner.source, a sequence of characters
    tokens,     \* Scanner.tokens
    start,      \* Scanner.start
    current,    \* Scanner.current
    line,       \* Scanner.line
    scan_pc,    \* where scan_tokens is: "scan", "done" or "panic"
    reports,    \* the errors handed to JuniorBread::error
    parser_current,     \* Parser.current
    parse_statements,   \* the statements vector of Parser::parse
    ast,        \* what the parser returned ("Running" while it has not)
    parse_pc,   \* where the parser is: "idle", "new", "parse", "done" or "panic"
    has_error,  \* JuniorBread.has_error
    run_pc,     \* where run_file is: "idle", "scan", "parse", "interpret",
                \* "returned" or "exited"
    exit_status \* the status the process of run_file ended with

interp_vars == <<envs, frames, output, result, call, ret>>
scan_vars == <<source, tokens, start, current, line, scan_pc, reports>>
parse_vars == <<parser_current, parse_statements, ast, parse_pc>>
run_vars == <<has_error, run_pc, exit_status>>
front_vars == <<scan_vars, parse_vars, run_vars>>
vars == <<envs, frames, output, result, call, ret,
          source, tokens, start, current, line, scan_pc, reports,
          parser_current, parse_statements, ast, parse_pc,
          has_error, run_pc, exit_status>>

(***************************************************************************)
(* Bounds                                                                  *)
(***************************************************************************)
MaxScopes == 2
MaxNodes == 3
MaxSrcLen == 3
MaxTokens == 6
MaxPhrases == 3
MaxNum == 1

(***************************************************************************)
(* Literal values: token.rs Literal, wrapped in Option by the AST and the  *)
(* Environment.  All values are records over the same fields.              *)
(***************************************************************************)
None == [variant |-> "None", num |-> 0, str |-> "", bool |-> FALSE]
Number(n) == [variant |-> "Number", num |-> n, str |-> "", bool |-> FALSE]
String(s) == [variant |-> "String", num |-> 0, str |-> s, bool |-> FALSE]
Boolean(b) == [variant |-> "Boolean", num |-> 0, str |-> "", bool |-> b]
NaN == [variant |-> "NaN", num |-> 0, str |-> "", bool |-> FALSE]
Unit == [variant |-> "Unit", num |-> 0, str |-> "", bool |-> FALSE]

Token(token_type, lexeme, literal, ln) ==
    [token_type |-> token_type, lexeme |-> lexeme, literal |-> literal, line |-> ln]

(***************************************************************************)
(* errors.rs                                                               *)
(***************************************************************************)
Error(ln, where_, message) ==
    [line |-> ln, where_ |-> where_, message |-> message]

NoError == [kind |-> "", error |-> Error(0, "", "")]
RunTimeException(e) == [kind |-> "RunTimeException", error |-> e]
ParseError(e) == [kind |-> "ParseError", error |-> e]

\* JBreadResult<T>
Ok(v) == [tag |-> "Ok", value |-> v, err |-> NoError]
Err(e) == [tag |-> "Err", value |-> Unit, err |-> e]
NoResult == [tag |-> "Running", value |-> Unit, err |-> NoError]

(***************************************************************************)
(* environment.rs                                                          *)
(*                                                                         *)
(* Environment.values is a HashMap<String, Option<Literal>>: a function on *)
(* Names whose value Absent says that the map has no entry for the key.    *)
(* Environment.encolosing is the id of the enclosing scope's cell, NoEnv   *)
(* for Option::None.                                                       *)
(***************************************************************************)
Names == {"a", "b"}
Absent == [variant |-> "Absent", num |-> 0, str |-> "", bool |-> FALSE]
NoEnv == 0
ScopeIds == 1..(MaxScopes + MaxNodes)
EmptyMap == [n \in Names |-> Absent]
contains_key(m, k) == m[k] # Absent
insert(m, k, v) == [m EXCEPT ![k] = v]

\* Environment::default
Environment_default == [values |-> EmptyMap, encolosing |-> NoEnv]
\* Environment::new that forgets the enclosing scope
Environment_new_detached(enclosing) == [values |-> EmptyMap, encolosing |-> NoEnv]

\* Environment::new
Environment_new(enclosing) == [values |-> EmptyMap, encolosing |-> enclosing]

\* Rc::new(RefCell::new(..)) puts the scope in a fresh cell; the cell is
\* freed when the last Rc to it is dropped.
NewCell(heap) ==
    CHOOSE i \in ScopeIds : i \notin DOMAIN heap /\ \A j \in 1..(i-1) : j \in DOMAIN heap
Alloc(heap, env) ==
    [i \in (DOMAIN heap) \cup {NewCell(heap)} |-> IF i = NewCell(heap) THEN env ELSE heap[i]]
Drop(heap, id) == [i \in (DOMAIN heap) \ {id} |-> heap[i]]

Environment_error(name) ==
    RunTimeException(Error(name.line, name.lexeme, "Undefined variable"))

\* define that leaves a name that is already bound as it is
Environment_define_keep(heap, self, name, value) ==
    IF contains_key(heap[self].values, name) THEN heap
    ELSE [heap EXCEPT ![self].values = insert(@, name, value)]

\* define that writes the binding of a scope that already binds the name
Environment_define_rebind(heap, self, name, value) ==
    IF /\ ~contains_key(heap[self].values, name)
       /\ \E i \in DOMAIN heap : contains_key(heap[i].values, name)
    THEN [heap EXCEPT ![CHOOSE i \in DOMAIN heap : contains_key(heap[i].values, name)].values =
                          insert(@, name, value)]
    ELSE [heap EXCEPT ![self].values = insert(@, name, value)]

Environment_define(heap, self, name, value) ==
    [heap EXCEPT ![self].values = insert(@, name, value)]

\* get takes &self and borrows the enclosing cells immutably: the heap it
\* returns is the heap it was given.
\* get that looks in this scope only
Environment_get_local(heap, self, token) ==
    IF contains_key(heap[self].values, token.lexeme)
    THEN [res |-> Ok(heap[self].values[token.lexeme]), heap |-> heap]
    ELSE [res |-> Err(Environment_error(token)), heap |-> heap]

\* get that enters the name it did not find in this scope, as nil
RECURSIVE Environment_get_entry(_, _, _)
Environment_get_entry(heap, self, token) ==
    IF contains_key(heap[self].values, token.lexeme)
    THEN [res |-> Ok(heap[self].values[token.lexeme]), heap |-> heap]
    ELSE IF heap[self].encolosing # NoEnv
    THEN Environment_get_entry(heap, heap[self].encolosing, token)
    ELSE [res |-> Err(Environment_error(token)),
          heap |-> [heap EXCEPT ![self].values = insert(@, token.lexeme, None)]]

RECURSIVE Environment_get(_, _, _)
Environment_get(heap, self, token) ==
    IF contains_key(heap[self].values, token.lexeme)
    THEN [res |-> Ok(heap[self].values[token.lexeme]), heap |-> heap]
    ELSE IF heap[self].encolosing # NoEnv
    THEN Environment_get(heap, heap[self].encolosing, token)
    ELSE [res |-> Err(Environment_error(token)), heap |-> heap]

\* assign that creates a global for a name that no scope binds
RECURSIVE Environment_assign_global(_, _, _, _)
Environment_assign_global(heap, self, name, value) ==
    IF ~contains_key(heap[self].values, name.lexeme) /\ heap[self].encolosing # NoEnv
    THEN Environment_assign_global(heap, heap[self].encolosing, name, value)
    ELSE [res |-> Ok(Unit),
          heap |-> [heap EXCEPT ![self].values = insert(@, name.lexeme, value)]]

\* assign that writes the scope it is called on when an enclosing scope binds the name
Environment_assign_here(heap, self, name, value) ==
    IF \A i \in DOMAIN heap : ~contains_key(heap[i].values, name.lexeme)
    THEN [res |-> Err(Environment_error(name)), heap |-> heap]
    ELSE [res |-> Ok(Unit),
          heap |-> [heap EXCEPT ![self].values = insert(@, name.lexeme, value)]]

RECURSIVE Environment_assign(_, _, _, _)
Environment_assign(heap, self, name, value) ==
    IF ~contains_key(heap[self].values, name.lexeme)
    THEN IF heap[self].encolosing # NoEnv
         THEN Environment_assign(heap, heap[self].encolosing, name, value)
         ELSE [res |-> Err(Environment_error(name)), heap |-> heap]
    ELSE [res |-> Ok(Unit),
          heap |-> [heap EXCEPT ![self].values = insert(@, name.lexeme, value)]]

(***************************************************************************)
(* ast.rs: the expression and statement nodes                              *)
(***************************************************************************)
Literal(value) == [node |-> "Literal", value |-> value]
Grouping(expression) == [node |-> "Grouping", expression |-> expression]
Unary(operator, right) == [node |-> "Unary", operator |-> operator, right |-> right]
Binary(left, operator, right) ==
    [node |-> "Binary", left |-> left, operator |-> operator, right |-> right]
Variable(name) == [node |-> "Variable", name |-> name]
Assign(name, value) == [node |-> "Assign", name |-> name, value |-> value]

Expression(expression) == [node |-> "Expression", expression |-> expression]
\* ast.rs Print (the name is taken by the TLC module)
PrintStmt(expression) == [node |-> "Print", expression |-> expression]
\* Var.initializer is an Option<Box<Expr>>: a sequence of at most one expression
Var(name, initializer) == [node |-> "Var", name |-> name, initializer |-> initializer]
Block(statements) == [node |-> "Block", statements |-> statements]

(***************************************************************************)
(* token.rs: TryInto<f64>, TryInto<String>, TryInto<bool> for Literal      *)
(***************************************************************************)
\* a conversion to f64 that takes a Boolean for 0.0 or 1.0
try_into_f64_from_bool(lit) ==
    IF lit.variant = "Number" THEN Ok(lit)
    ELSE IF lit.variant = "Boolean" THEN Ok(Number(IF lit.bool THEN 1 ELSE 0))
    ELSE Err(RunTimeException(Error(0, "Number", "Cannot convert non-number to number")))

try_into_f64(lit) ==
    IF lit.variant = "Number" THEN Ok(lit)
    ELSE Err(RunTimeException(Error(0, "Number", "Cannot convert non-number to number")))

try_into_String(lit) ==
    IF lit.variant = "String" THEN Ok(lit)
    ELSE Err(RunTimeException(Error(0, "String", "Cannot convert non-string to string")))

try_into_bool(lit) ==
    IF lit.variant = "Boolean" THEN Ok(lit)
    ELSE Err(RunTimeException(Error(0, "Boolean", "Cannot convert non-boolean to boolean")))

(***************************************************************************)
(* interpret.rs: expressions.  An evaluation returns the JBreadResult and  *)
(* the heap it leaves; the Literal node it returns is given by its value.  *)
(* The f64 of a Number is an integer here, or one of the three values that *)
(* are not finite: Infinity, -Infinity and IeeeNaN.  A division of finite  *)
(* numbers keeps the integer part of the quotient.                         *)
(***************************************************************************)
Infinity == 1000
IeeeNaN == 2000
is_finite(x) == x # IeeeNaN /\ x # Infinity /\ x # -Infinity

\* -x
f64_neg(x) == IF x = IeeeNaN THEN IeeeNaN ELSE -x

\* l + r
f64_add(l, r) ==
    IF l = IeeeNaN \/ r = IeeeNaN THEN IeeeNaN
    ELSE IF ~is_finite(l) THEN (IF r = -l THEN IeeeNaN ELSE l)
    ELSE IF ~is_finite(r) THEN r
    ELSE l + r

\* l - r
f64_sub(l, r) == f64_add(l, f64_neg(r))

\* l * r
f64_mul(l, r) ==
    IF l = IeeeNaN \/ r = IeeeNaN THEN IeeeNaN
    ELSE IF is_finite(l) /\ is_finite(r) THEN l * r
    ELSE IF l = 0 \/ r = 0 THEN IeeeNaN
    ELSE IF (l < 0) = (r < 0) THEN Infinity ELSE -Infinity

\* l / r
f64_div(l, r) ==
    IF l = IeeeNaN \/ r = IeeeNaN THEN IeeeNaN
    ELSE IF ~is_finite(l) THEN (IF ~is_finite(r) THEN IeeeNaN
                                ELSE IF (l < 0) = (r < 0) THEN Infinity ELSE -Infinity)
    ELSE IF ~is_finite(r) THEN 0
    ELSE IF r = 0 THEN (IF l = 0 THEN IeeeNaN ELSE IF l < 0 THEN -Infinity ELSE Infinity)
    ELSE IF (l < 0) = (r < 0) THEN (IF l < 0 THEN (-l) \div (-r) ELSE l \div r)
    ELSE -((IF l < 0 THEN -l ELSE l) \div (IF r < 0 THEN -r ELSE r))

\* l < r and l <= r: false when an operand is the IEEE NaN
f64_lt(l, r) == l # IeeeNaN /\ r # IeeeNaN /\ l < r
f64_le(l, r) == l # IeeeNaN /\ r # IeeeNaN /\ l <= r

\* == of Literal that ignores the variant
literal_eq_coerced(left, right) ==
    left.num = right.num /\ left.str = right.str /\ left.bool = right.bool

\* #[derive(PartialEq)] of Literal: the same variant and equal fields, the
\* f64 of two Numbers compared as f64 compares
literal_eq(left, right) ==
    /\ left.variant = right.variant
    /\ IF left.variant = "Number"
       THEN left.num # IeeeNaN /\ left.num = right.num /\ left.str = right.str
       ELSE left = right

Interpreter_error(token, message) ==
    RunTimeException(Error(token.line, token.lexeme, message))

\* a? op b? on two Result<f64>: the first Err, else the value
both(left_num, right_num, value) ==
    IF left_num.tag = "Err" THEN left_num
    ELSE IF right_num.tag = "Err" THEN right_num
    ELSE Ok(value)

\* the Slash arm with the sentinel for every division by zero
slash_op_zero_divisor(operator, left, right) ==
    IF try_into_f64(left).tag = "Ok" /\ try_into_f64(right).tag = "Ok"
    THEN IF right.num = 0 THEN Ok(NaN)
         ELSE Ok(Number(f64_div(left.num, right.num)))
    ELSE Err(Interpreter_error(operator, "Cannot divide non-number"))

\* the Slash arm of visit_expr_binary
slash_op(operator, left, right) ==
    IF try_into_f64(left).tag = "Ok" /\ try_into_f64(right).tag = "Ok"
    THEN IF right.num = 0 /\ left.num = 0 THEN Ok(NaN)
         ELSE Ok(Number(f64_div(left.num, right.num)))
    ELSE Err(Interpreter_error(operator, "Cannot divide non-number"))

\* the Plus arm that turns a Number into text when the other operand is a String
plus_op_to_text(operator, left, right) ==
    IF left.variant = "String" /\ right.variant \in {"String", "Number"}
    THEN Ok(String(left.str \o (IF right.variant = "String" THEN right.str
                                ELSE ToString(right.num))))
    ELSE IF left.variant = "Number" /\ right.variant = "Number"
    THEN Ok(Number(f64_add(left.num, right.num)))
    ELSE Err(Interpreter_error(operator, "Invalid operands"))

\* the Plus arm of visit_expr_binary
plus_op(operator, left, right) ==
    IF left.variant = "String" /\ right.variant = "String"
    THEN Ok(String(left.str \o right.str))
    ELSE IF left.variant = "Number" /\ right.variant = "Number"
    THEN Ok(Number(f64_add(left.num, right.num)))
    ELSE Err(Interpreter_error(operator, "Invalid operands"))

\* the match on the operator of visit_expr_binary, both operands evaluated
binary_op(operator, left, right) ==
    LET left_num == try_into_f64(left)
        right_num == try_into_f64(right)
        t == operator.token_type
    IN  IF t = "Minus" THEN both(left_num, right_num, Number(f64_sub(left.num, right.num)))
        ELSE IF t = "Star" THEN both(left_num, right_num, Number(f64_mul(left.num, right.num)))
        ELSE IF t = "Greater"
        THEN both(left_num, right_num, Boolean(f64_lt(right.num, left.num)))
        ELSE IF t = "GreaterEqual"
        THEN both(left_num, right_num, Boolean(f64_le(right.num, left.num)))
        ELSE IF t = "Less" THEN both(left_num, right_num, Boolean(f64_lt(left.num, right.num)))
        ELSE IF t = "LessEqual"
        THEN both(left_num, right_num, Boolean(f64_le(left.num, right.num)))
        ELSE IF t = "BangEqual" THEN Ok(Boolean(~literal_eq(left, right)))
        ELSE IF t = "EqualEqual" THEN Ok(Boolean(literal_eq(left, right)))
        ELSE IF t = "Slash" THEN slash_op(operator, left, right)
        ELSE IF t = "Plus" THEN plus_op(operator, left, right)
        ELSE Err(Interpreter_error(operator, "Invalid operator for binary expression"))

\* the match of visit_expr_unary with '!' taken for every operator but '-'
unary_op_default_bang(operator, right_value) ==
    IF operator.token_type = "Minus"
    THEN IF try_into_f64(right_value).tag = "Err" THEN try_into_f64(right_value)
         ELSE Ok(Number(f64_neg(right_value.num)))
    ELSE IF try_into_bool(right_value).tag = "Err" THEN try_into_bool(right_value)
    ELSE Ok(Boolean(~right_value.bool))

\* the match on the operator of visit_expr_unary, the operand evaluated
unary_op(operator, right_value) ==
    IF operator.token_type = "Minus"
    THEN IF try_into_f64(right_value).tag = "Err" THEN try_into_f64(right_value)
         ELSE Ok(Number(f64_neg(right_value.num)))
    ELSE IF operator.token_type = "Bang"
    THEN IF try_into_bool(right_value).tag = "Err" THEN try_into_bool(right_value)
         ELSE Ok(Boolean(~right_value.bool))
    ELSE Err(Interpreter_error(operator, "Invalid operator for unary expression"))

visit_expr_literal(heap, expr) == [res |-> Ok(expr.value), heap |-> heap]

visit_expr_variable(heap, environment, expr) ==
    Environment_get(heap, environment, expr.name)

RECURSIVE evalute(_, _, _)

visit_expr_grouping(heap, environment, expr) ==
    evalute(heap, environment, expr.expression)

\* visit_expr_unary that takes nil under ! as false
visit_expr_unary_nil_falsey(heap, environment, expr) ==
    LET r == evalute(heap, environment, expr.right)
    IN  IF r.res.tag = "Err" THEN r
        ELSE IF r.res.value = None
        THEN (IF expr.operator.token_type = "Bang"
              THEN [res |-> Ok(Boolean(TRUE)), heap |-> r.heap]
              ELSE [res |-> Err(Interpreter_error(expr.operator,
                                                  "Right value is not a literal")),
                    heap |-> r.heap])
        ELSE [res |-> unary_op(expr.operator, r.res.value), heap |-> r.heap]

visit_expr_unary(heap, environment, expr) ==
    LET r == evalute(heap, environment, expr.right)
    IN  IF r.res.tag = "Err" THEN r
        ELSE IF r.res.value = None
        THEN [res |-> Err(Interpreter_error(expr.operator, "Right value is not a literal")),
              heap |-> r.heap]
        ELSE [res |-> unary_op(expr.operator, r.res.value), heap |-> r.heap]

\* visit_expr_binary that converts the left operand before it evaluates the
\* right operand
visit_expr_binary_converts_first(heap, environment, expr) ==
    LET l == evalute(heap, environment, expr.left)
    IN  IF l.res.tag = "Err" THEN l
        ELSE IF l.res.value = None
        THEN [res |-> Err(Interpreter_error(expr.operator, "Left value is not a literal")),
              heap |-> l.heap]
        ELSE IF /\ expr.operator.token_type \in {"Minus", "Star", "Greater", "GreaterEqual",
                                                 "Less", "LessEqual"}
                /\ try_into_f64(l.res.value).tag = "Err"
        THEN [res |-> try_into_f64(l.res.value), heap |-> l.heap]
        ELSE LET r == evalute(l.heap, environment, expr.right)
             IN  IF r.res.tag = "Err" THEN r
                 ELSE IF r.res.value = None
                 THEN [res |-> Err(Interpreter_error(expr.operator,
                                                     "Right value is not a literal")),
                       heap |-> r.heap]
                 ELSE [res |-> binary_op(expr.operator, l.res.value, r.res.value),
                       heap |-> r.heap]

visit_expr_binary(heap, environment, expr) ==
    LET l == evalute(heap, environment, expr.left)
    IN  IF l.res.tag = "Err" THEN l
        ELSE IF l.res.value = None
        THEN [res |-> Err(Interpreter_error(expr.operator, "Left value is not a literal")),
              heap |-> l.heap]
        ELSE LET r == evalute(l.heap, environment, expr.right)
             IN  IF r.res.tag = "Err" THEN r
                 ELSE IF r.res.value = None
                 THEN [res |-> Err(Interpreter_error(expr.operator,
                                                     "Right value is not a literal")),
                       heap |-> r.heap]
                 ELSE [res |-> binary_op(expr.operator, l.res.value, r.res.value),
                       heap |-> r.heap]

\* an assignment that evaluates to nil
visit_expr_assign_nil(heap, environment, expr) ==
    LET evaluated == evalute(heap, environment, expr.value)
    IN  IF evaluated.res.tag = "Err" THEN evaluated
        ELSE LET a == Environment_assign(evaluated.heap, environment, expr.name,
                                         evaluated.res.value)
             IN  IF a.res.tag = "Err" THEN a
                 ELSE [res |-> Ok(None), heap |-> a.heap]

\* an assignment that stores nil when the value fails
visit_expr_assign_clears(heap, environment, expr) ==
    LET evaluated == evalute(heap, environment, expr.value)
    IN  IF evaluated.res.tag = "Err"
        THEN [res |-> evaluated.res,
              heap |-> Environment_assign(evaluated.heap, environment, expr.name, None).heap]
        ELSE LET a == Environment_assign(evaluated.heap, environment, expr.name,
                                         evaluated.res.value)
             IN  IF a.res.tag = "Err" THEN a
                 ELSE [res |-> evaluated.res, heap |-> a.heap]

visit_expr_assign(heap, environment, expr) ==
    LET evaluated == evalute(heap, environment, expr.value)
    IN  IF evaluated.res.tag = "Err" THEN evaluated
        ELSE LET a == Environment_assign(evaluated.heap, environment, expr.name,
                                         evaluated.res.value)
             IN  IF a.res.tag = "Err" THEN a
                 ELSE [res |-> evaluated.res, heap |-> a.heap]

\* Expr::accept
evalute(heap, environment, expr) ==
    IF expr.node = "Literal" THEN visit_expr_literal(heap, expr)
    ELSE IF expr.node = "Grouping" THEN visit_expr_grouping(heap, environment, expr)
    ELSE IF expr.node = "Unary" THEN visit_expr_unary(heap, environment, expr)
    ELSE IF expr.node = "Binary" THEN visit_expr_binary(heap, environment, expr)
    ELSE IF expr.node = "Variable" THEN visit_expr_variable(heap, environment, expr)
    ELSE visit_expr_assign(heap, environment, expr)

(***************************************************************************)
(* The borrows of the scope cells.  A scope is in an Rc<RefCell<..>>:      *)
(* borrow() panics while the cell is borrowed mutably, borrow_mut() panics *)
(* while it is borrowed at all.  held is the cells with a borrow that is   *)
(* still alive; the operators below follow the evaluation of an expression *)
(* and are TRUE when none of its borrows panics.                           *)
(***************************************************************************)
NoBorrows == [shared |-> {}, mutable |-> {}]
RefCell_borrow(held, cell) == cell \notin held.mutable
RefCell_borrow_mut(held, cell) == cell \notin held.mutable /\ cell \notin held.shared

\* Environment::get on the borrowed scope self: it borrows the enclosing
\* cell for the delegated call
RECURSIVE Environment_get_borrows(_, _, _, _)
Environment_get_borrows(heap, self, token, held) ==
    IF contains_key(heap[self].values, token.lexeme) \/ heap[self].encolosing = NoEnv
    THEN TRUE
    ELSE /\ RefCell_borrow(held, heap[self].encolosing)
         /\ Environment_get_borrows(heap, heap[self].encolosing, token,
                                    [held EXCEPT !.shared = @ \cup {heap[self].encolosing}])

\* Environment::assign on the mutably borrowed scope self
RECURSIVE Environment_assign_borrows(_, _, _, _)
Environment_assign_borrows(heap, self, name, held) ==
    IF contains_key(heap[self].values, name.lexeme) \/ heap[self].encolosing = NoEnv
    THEN TRUE
    ELSE /\ RefCell_borrow_mut(held, heap[self].encolosing)
         /\ Environment_assign_borrows(heap, heap[self].encolosing, name,
                                       [held EXCEPT !.mutable = @ \cup {heap[self].encolosing}])

RECURSIVE evalute_borrows(_, _, _, _)

\* self.environment.borrow().get(&expr.name)
visit_expr_variable_borrows(heap, environment, expr, held) ==
    /\ RefCell_borrow(held, environment)
    /\ Environment_get_borrows(heap, environment, expr.name,
                               [held EXCEPT !.shared = @ \cup {environment}])

\* an assignment that takes the mutable borrow of the scope before it
\* evaluates the value
visit_expr_assign_borrows_first(heap, environment, expr, held) ==
    /\ RefCell_borrow_mut(held, environment)
    /\ evalute_borrows(heap, environment, expr.value,
                       [held EXCEPT !.mutable = @ \cup {environment}])
    /\ evalute(heap, environment, expr.value).res.tag = "Ok"
           => Environment_assign_borrows(evalute(heap, environment, expr.value).heap,
                                         environment, expr.name,
                                         [held EXCEPT !.mutable = @ \cup {environment}])

\* the value is evaluated, then self.environment.borrow_mut().assign(..)
visit_expr_assign_borrows(heap, environment, expr, held) ==
    /\ evalute_borrows(heap, environment, expr.value, held)
    /\ evalute(heap, environment, expr.value).res.tag = "Ok"
           => /\ RefCell_borrow_mut(held, environment)
              /\ Environment_assign_borrows(evalute(heap, environment, expr.value).heap,
                                            environment, expr.name,
                                            [held EXCEPT !.mutable = @ \cup {environment}])

\* the right operand is evaluated when the left one has a value
visit_expr_binary_borrows(heap, environment, expr, held) ==
    /\ evalute_borrows(heap, environment, expr.left, held)
    /\ (/\ evalute(heap, environment, expr.left).res.tag = "Ok"
        /\ evalute(heap, environment, expr.left).res.value # None)
           => evalute_borrows(evalute(heap, environment, expr.left).heap, environment,
                              expr.right, held)

evalute_borrows(heap, environment, expr, held) ==
    IF expr.node = "Literal" THEN TRUE
    ELSE IF expr.node = "Grouping"
    THEN evalute_borrows(heap, environment, expr.expression, held)
    ELSE IF expr.node = "Unary" THEN evalute_borrows(heap, environment, expr.right, held)
    ELSE IF expr.node = "Binary" THEN visit_expr_binary_borrows(heap, environment, expr, held)
    ELSE IF expr.node = "Variable"
    THEN visit_expr_variable_borrows(heap, environment, expr, held)
    ELSE visit_expr_assign_borrows(heap, environment, expr, held)

\* the panic of a borrow that failed ("already borrowed")
BorrowPanic == [tag |-> "Panic", value |-> Unit, err |-> NoError]
borrow_checked(ok, res) == IF ok THEN res ELSE BorrowPanic

(***************************************************************************)
(* interpret.rs: statements.  frames holds the Interpreter values that are *)
(* executing: frames[1] is the one interpret was called on, each           *)
(* execute_block adds the Interpreter it creates, with the statements it   *)
(* iterates over and the index of the next one.                            *)
(***************************************************************************)
Frame(environment, statements) ==
    [environment |-> environment, statements |-> statements, idx |-> 1]

depth == Len(frames)
cur == frames[depth]
stmt == cur.statements[cur.idx]
AtStmt(node) ==
    /\ result.tag = "Running"
    /\ ret.tag \notin {"Err", "Panic"}
    /\ cur.idx <= Len(cur.statements)
    /\ stmt.node = node
advance == [frames EXCEPT ![depth].idx = @ + 1]

Call(op, environment, name, value) ==
    [op |-> op, env |-> environment, name |-> name, value |-> value]
NoCall == Call("", NoEnv, "", Unit)

\* {:?} of the Literal node that println! is given
fmt_f64(n) ==
    IF n = IeeeNaN THEN "NaN"
    ELSE IF n = Infinity THEN "inf"
    ELSE IF n = -Infinity THEN "-inf"
    ELSE IF n < 0 THEN "-" \o ToString(-n) \o ".0" ELSE ToString(n) \o ".0"
fmt_debug(value) ==
    "Literal { value: " \o
    (IF value = None THEN "None"
     ELSE IF value.variant = "Number" THEN "Some(Number(" \o fmt_f64(value.num) \o "))"
     ELSE IF value.variant = "String" THEN "Some(String(\"" \o value.str \o "\"))"
     ELSE IF value.variant = "Boolean"
     THEN "Some(Boolean(" \o (IF value.bool THEN "true" ELSE "false") \o "))"
     ELSE "Some(NaN)")
    \o " }"

\* self.execute(stmt)? in the loops of interpret and execute_block: the
\* error of the statement ends the loop, Ok(()) lets it go on
try_execute_swallow(res) == Ok(Unit)

try_execute(res) == IF res.tag = "Err" THEN res ELSE Ok(Unit)

\* the loop after the statement: the next statement unless the statement failed
next_stmt(res) == IF try_execute(res).tag = "Err" THEN frames ELSE advance

\* the match on stmt.initializer of visit_stmt_var
var_initializer_unbound(heap, environment, s) ==
    IF s.initializer # <<>> THEN evalute(heap, environment, s.initializer[1])
    ELSE [res |-> Ok(Absent), heap |-> heap]

var_initializer(heap, environment, s) ==
    IF s.initializer # <<>> THEN evalute(heap, environment, s.initializer[1])
    ELSE [res |-> Ok(None), heap |-> heap]

visit_stmt_expression ==
    /\ AtStmt("Expression")
    /\ LET r == evalute(envs, cur.environment, stmt.expression)
           ok == evalute_borrows(envs, cur.environment, stmt.expression, NoBorrows)
       IN  /\ envs' = r.heap
           /\ ret' = borrow_checked(ok, try_execute(r.res))
           /\ call' = Call("visit_stmt_expression", cur.environment, "", r.res.value)
           /\ frames' = IF ok THEN next_stmt(r.res) ELSE frames
    /\ UNCHANGED <<output, result>>
    /\ UNCHANGED front_vars

visit_stmt_print ==
    /\ AtStmt("Print")
    /\ LET r == evalute(envs, cur.environment, stmt.expression)
           ok == evalute_borrows(envs, cur.environment, stmt.expression, NoBorrows)
       IN  /\ envs' = r.heap
           /\ ret' = borrow_checked(ok, try_execute(r.res))
           /\ call' = Call("visit_stmt_print", cur.environment, "", r.res.value)
           /\ output' = IF r.res.tag = "Err" \/ ~ok THEN output
                        ELSE Append(output, fmt_debug(r.res.value))
           /\ frames' = IF ok THEN next_stmt(r.res) ELSE frames
    /\ UNCHANGED result
    /\ UNCHANGED front_vars

visit_stmt_var ==
    /\ AtStmt("Var")
    /\ LET r == var_initializer(envs, cur.environment, stmt)
           ok == /\ \A e \in {stmt.initializer[k] : k \in 1..Len(stmt.initializer)} :
                      evalute_borrows(envs, cur.environment, e, NoBorrows)
                 /\ RefCell_borrow_mut(NoBorrows, cur.environment)
       IN  /\ envs' = IF r.res.tag = "Err" \/ ~ok THEN r.heap
                      ELSE Environment_define(r.heap, cur.environment,
                                              stmt.name.lexeme, r.res.value)
           /\ ret' = borrow_checked(ok, try_execute(r.res))
           /\ call' = Call("visit_stmt_var", cur.environment, stmt.name.lexeme, r.res.value)
           /\ frames' = IF ok THEN next_stmt(r.res) ELSE frames
    /\ UNCHANGED <<output, result>>
    /\ UNCHANGED front_vars

\* visit_stmt_block that encloses every block in the global scope
visit_stmt_block_in_globals ==
    /\ AtStmt("Block")
    /\ envs' = Alloc(envs, Environment_new(frames[1].environment))
    /\ frames' = Append(frames, Frame(NewCell(envs), stmt.statements))
    /\ call' = Call("visit_stmt_block", cur.environment, "", Unit)
    /\ ret' = Ok(Unit)
    /\ UNCHANGED <<output, result>>
    /\ UNCHANGED front_vars

\* visit_stmt_block up to the first statement of execute_block: the child
\* scope and the Interpreter on it
visit_stmt_block ==
    /\ AtStmt("Block")
    /\ envs' = Alloc(envs, Environment_new(cur.environment))
    /\ frames' = Append(frames, Frame(NewCell(envs), stmt.statements))
    /\ call' = Call("visit_stmt_block", cur.environment, "", Unit)
    /\ ret' = Ok(Unit)
    /\ UNCHANGED <<output, result>>
    /\ UNCHANGED front_vars

\* execute_block returns, after the last statement or with the error of a
\* statement: its Interpreter is dropped, and with it the last Rc to the
\* child scope
execute_block_return ==
    /\ result.tag = "Running"
    /\ depth > 1
    /\ ret.tag = "Err" \/ cur.idx > Len(cur.statements)
    /\ envs' = Drop(envs, cur.environment)
    /\ frames' = IF ret.tag = "Err" THEN SubSeq(frames, 1, depth - 1)
                 ELSE [SubSeq(frames, 1, depth - 1) EXCEPT ![depth - 1].idx = @ + 1]
    /\ call' = Call("execute_block", cur.environment, "", Unit)
    /\ UNCHANGED <<ret, output, result>>
    /\ UNCHANGED front_vars

\* interpret returns, after the last statement or with the error of a
\* statement
interpret_return ==
    /\ result.tag = "Running"
    /\ depth = 1
    /\ ret.tag = "Err" \/ cur.idx > Len(cur.statements)
    /\ result' = IF ret.tag = "Err" THEN ret ELSE Ok(Unit)
    /\ call' = Call("interpret", cur.environment, "", Unit)
    /\ UNCHANGED <<envs, frames, output, ret>>
    /\ UNCHANGED front_vars

(***************************************************************************)
(* The programs interpret is run on: the statement lists of at most        *)
(* MaxNodes statements, blocks and the statements in them counted, over    *)
(* the statements of StmtInputs.                                           *)
(***************************************************************************)
Ident(n) == Token("Identifier", n, None, 1)
Op(token_type, lexeme) == Token(token_type, lexeme, None, 1)

StmtInputs ==
    { Var(Ident("a"), <<>>),
      Var(Ident("a"), <<Literal(Number(2))>>),
      Var(Ident("b"), <<Variable(Ident("a"))>>),
      Expression(Assign(Ident("a"), Literal(Number(3)))),
      Expression(Binary(Assign(Ident("b"), Literal(Number(3))), Op("Plus", "+"),
                        Literal(String("s")))),
      PrintStmt(Variable(Ident("a"))),
      PrintStmt(Variable(Ident("b"))) }

StmtLists[n \in 0..MaxNodes] ==
    IF n = 0 THEN {<<>>}
    ELSE {<<s>> \o rest : s \in StmtInputs, rest \in StmtLists[n - 1]}
         \cup UNION { {<<Block(inner)>> \o rest :
                           inner \in StmtLists[k], rest \in StmtLists[n - 1 - k]} :
                      k \in 0..(n - 1) }

Programs == UNION {StmtLists[n] : n \in 0..MaxNodes}

\* further programs: a block that declares a name of the global scope,
\* before and after an assignment to it, and a block that assigns to a name
\* of the global scope the value it reads from it
LongerPrograms ==
    { << Var(Ident("a"), <<Literal(Number(2))>>),
         Block(<< Expression(Assign(Ident("a"), Literal(Number(3)))),
                  Var(Ident("a"), <<>>) >>) >>,
      << Var(Ident("a"), <<Literal(Number(2))>>),
         Block(<< Var(Ident("a"), <<>>),
                  Expression(Assign(Ident("a"), Literal(Number(3)))),
                  PrintStmt(Variable(Ident("a"))) >>),
         PrintStmt(Variable(Ident("a"))) >>,
      << Var(Ident("a"), <<Literal(Number(2))>>),
         Block(<< Expression(Assign(Ident("a"), Variable(Ident("a")))) >>) >> }

ScanIdle ==
    /\ source = <<>>
    /\ tokens = <<>>
    /\ start = 0
    /\ current = 0
    /\ line = 1
    /\ scan_pc = "idle"
    /\ reports = <<>>

\* no Parser
ParseIdle ==
    /\ parser_current = 0
    /\ parse_statements = <<>>
    /\ ast = NoResult
    /\ parse_pc = "idle"

\* no JuniorBread
RunIdle ==
    /\ has_error = FALSE
    /\ run_pc = "idle"
    /\ exit_status = 0

\* Interpreter::default, then interpret(stmts)
Init ==
    /\ envs = [i \in {1} |-> Environment_default]
    /\ frames \in {<<Frame(1, stmts)>> : stmts \in Programs \cup LongerPrograms}
    /\ output = <<>>
    /\ result = NoResult
    /\ call = NoCall
    /\ ret = NoResult
    /\ ScanIdle
    /\ ParseIdle
    /\ RunIdle

Next ==
    \/ visit_stmt_expression
    \/ visit_stmt_print
    \/ visit_stmt_var
    \/ visit_stmt_block
    \/ execute_block_return
    \/ interpret_return

Spec == Init /\ [][Next]_vars

(***************************************************************************)
(* SpecEnv: the Environment operations and the two visitors that only read *)
(* or write a variable, called on any scope of a heap of at most MaxScopes *)
(* scopes, the way the unit tests of interpret.rs call define and          *)
(* visit_expr_variable on a fresh Interpreter.                             *)
(***************************************************************************)
EnvValues == {None, Number(3)}

InterpIdle ==
    /\ frames = <<>>
    /\ output = <<>>
    /\ result = NoResult

EnvNew(enclosing) ==
    /\ Cardinality(DOMAIN envs) < MaxScopes
    /\ envs' = Alloc(envs, Environment_new(enclosing))
    /\ call' = Call("new", NewCell(envs), "", Unit)
    /\ ret' = Ok(Unit)
    /\ UNCHANGED <<frames, output, result>>
    /\ UNCHANGED front_vars

EnvDefine(self, name, value) ==
    /\ envs' = Environment_define(envs, self, name, value)
    /\ call' = Call("define", self, name, value)
    /\ ret' = Ok(Unit)
    /\ UNCHANGED <<frames, output, result>>
    /\ UNCHANGED front_vars

EnvGet(self, name) ==
    /\ LET r == Environment_get(envs, self, Ident(name))
       IN  /\ envs' = r.heap
           /\ ret' = r.res
    /\ call' = Call("get", self, name, Unit)
    /\ UNCHANGED <<frames, output, result>>
    /\ UNCHANGED front_vars

EnvAssign(self, name, value) ==
    /\ LET r == Environment_assign(envs, self, Ident(name), value)
       IN  /\ envs' = r.heap
           /\ ret' = r.res
    /\ call' = Call("assign", self, name, value)
    /\ UNCHANGED <<frames, output, result>>
    /\ UNCHANGED front_vars

\* Interpreter::new(self).visit_expr_variable(Variable { name })
EnvVisitVariable(self, name) ==
    /\ LET r == visit_expr_variable(envs, self, Variable(Ident(name)))
       IN  /\ envs' = r.heap
           /\ ret' = r.res
    /\ call' = Call("visit_expr_variable", self, name, Unit)
    /\ UNCHANGED <<frames, output, result>>
    /\ UNCHANGED front_vars

InitEnv ==
    /\ envs = [i \in {1} |-> Environment_default]
    /\ InterpIdle
    /\ call = NoCall
    /\ ret = NoResult
    /\ ScanIdle
    /\ ParseIdle
    /\ RunIdle

NextEnv ==
    \/ \E enclosing \in DOMAIN envs : EnvNew(enclosing)
    \/ \E self \in DOMAIN envs, name \in Names, value \in EnvValues :
           EnvDefine(self, name, value)
    \/ \E self \in DOMAIN envs, name \in Names : EnvGet(self, name)
    \/ \E self \in DOMAIN envs, name \in Names, value \in EnvValues :
           EnvAssign(self, name, value)
    \/ \E self \in DOMAIN envs, name \in Names : EnvVisitVariable(self, name)

SpecEnv == InitEnv /\ [][NextEnv]_vars

(***************************************************************************)
(* SpecEval: interpret run on the programs that end with one statement     *)
(* over an operator expression, the way the unit tests of interpret.rs     *)
(* build a Binary or Unary node over Literal nodes and hand it to the      *)
(* visitor.  The operands are the literals over the numbers up to MaxNum,  *)
(* two strings, the booleans, the sentinel and nil, a read of a and an     *)
(* assignment to b; the statements before the last declare a or b, a also  *)
(* with a value that is not finite.  The last statement is also an         *)
(* assignment to a or a declaration of a with a Unary node as its value.   *)
(***************************************************************************)
EvalValues ==
    {Number(n) : n \in (-MaxNum)..MaxNum}
        \cup {String(""), String("s"), Boolean(TRUE), Boolean(FALSE), NaN, None}

EvalOperands ==
    {Literal(v) : v \in EvalValues}
        \cup {Variable(Ident("a")), Assign(Ident("b"), Literal(Number(1)))}

BinaryOps ==
    {Op("Minus", "-"), Op("Star", "*"), Op("Greater", ">"), Op("GreaterEqual", ">="),
     Op("Less", "<"), Op("LessEqual", "<="), Op("BangEqual", "!="),
     Op("EqualEqual", "=="), Op("Slash", "/"), Op("Plus", "+"), Op("Bang", "!")}

UnaryOps == {Op("Minus", "-"), Op("Bang", "!"), Op("Plus", "+")}

\* the value expressions of the assignments and declarations: a Unary node
\* over an operand or over an assignment to a
ValueExprs ==
    {Unary(o, e) : o \in UnaryOps,
                   e \in EvalOperands \cup {Assign(Ident("a"), Literal(Number(1)))}}

EvalStmts ==
    {Expression(Binary(l, o, r)) : l \in EvalOperands, o \in BinaryOps, r \in EvalOperands}
        \cup {Expression(Unary(o, e)) : o \in UnaryOps, e \in EvalOperands}
        \cup {PrintStmt(e) : e \in EvalOperands}
        \cup {Expression(Assign(Ident("a"), x)) : x \in ValueExprs}
        \cup {Var(Ident("a"), <<x>>) : x \in ValueExprs}

\* 1 / 0, -1 / 0 and (1 / 0) - (1 / 0)
OneByZero == Binary(Literal(Number(1)), Op("Slash", "/"), Literal(Number(0)))
MinusOneByZero ==
    Binary(Unary(Op("Minus", "-"), Literal(Number(1))), Op("Slash", "/"), Literal(Number(0)))
InfMinusInf == Binary(OneByZero, Op("Minus", "-"), OneByZero)

EvalSetups ==
    { <<>>,
      <<Var(Ident("a"), <<>>)>>,
      <<Var(Ident("b"), <<>>)>>,
      <<Var(Ident("a"), <<>>), Var(Ident("b"), <<>>)>>,
      <<Var(Ident("a"), <<OneByZero>>)>>,
      <<Var(Ident("a"), <<MinusOneByZero>>)>>,
      <<Var(Ident("a"), <<InfMinusInf>>)>> }

\* Interpreter::default, then interpret(stmts)
InitEval ==
    /\ envs = [i \in {1} |-> Environment_default]
    /\ \E setup \in EvalSetups, s \in EvalStmts : frames = <<Frame(1, setup \o <<s>>)>>
    /\ output = <<>>
    /\ result = NoResult
    /\ call = NoCall
    /\ ret = NoResult
    /\ ScanIdle
    /\ ParseIdle
    /\ RunIdle

NextEval ==
    \/ visit_stmt_expression
    \/ visit_stmt_print
    \/ visit_stmt_var
    \/ interpret_return

SpecEval == InitEval /\ [][NextEval]_vars

(***************************************************************************)
(* scanner.rs.  source is a String: a sequence of characters, each encoded *)
(* in len_utf8 bytes.  source.len() and the bounds of a slice count bytes, *)
(* source.chars().nth(i) counts characters.  A Scanner value is a record   *)
(* of the fields the functions change, with panic set once an unwrap or a  *)
(* slice has panicked.                                                     *)
(***************************************************************************)
NUL == "NUL"            \* the character '\0'
NoChar == "NoChar"      \* Option::None of chars().nth
AsciiDigits == {"0", "1", "2", "3", "4", "5", "6", "7", "8", "9"}
AsciiLetters ==
    {"a", "b", "c", "d", "e", "f", "g", "h", "i", "j", "k", "l", "m", "n", "o", "p", "q",
     "r", "s", "t", "u", "v", "w", "x", "y", "z",
     "A", "B", "C", "D", "E", "F", "G", "H", "I", "J", "K", "L", "M", "N", "O", "P", "Q",
     "R", "S", "T", "U", "V", "W", "X", "Y", "Z"}
TwoByteLetters == {"é"}
len_utf8(c) == IF c \in TwoByteLetters THEN 2 ELSE 1
is_ascii_digit(c) == c \in AsciiDigits
is_alphanumeric(c) == c \in AsciiLetters \cup AsciiDigits \cup TwoByteLetters

KEYWORDS_MAP ==
    [and |-> "And", class |-> "Class", else |-> "Else", false |-> "False", for |-> "For",
     fun |-> "Fun", if |-> "If", nil |-> "Nil", or |-> "Or", print |-> "Print",
     return |-> "Return", super |-> "Super", this |-> "This", true |-> "True",
     var |-> "Var", while |-> "While"]

\* the byte offset of the end of the first k characters
RECURSIVE byte_offset(_, _)
byte_offset(src, k) == IF k = 0 THEN 0 ELSE byte_offset(src, k - 1) + len_utf8(src[k])

\* String::len
str_len(src) == byte_offset(src, Len(src))

\* chars().nth(i)
chars_nth(src, i) == IF i < Len(src) THEN src[i + 1] ELSE NoChar

\* &src[from..to]: fails unless from <= to <= len and both are character boundaries
slice_ok(src, from, to) ==
    /\ from <= to
    /\ \E k \in 0..Len(src) : byte_offset(src, k) = from
    /\ \E k \in 0..Len(src) : byte_offset(src, k) = to
slice(src, from, to) ==
    SubSeq(src, (CHOOSE k \in 0..Len(src) : byte_offset(src, k) = from) + 1,
                CHOOSE k \in 0..Len(src) : byte_offset(src, k) = to)

\* to_string of a slice
RECURSIVE to_string(_)
to_string(chars) == IF chars = <<>> THEN "" ELSE Head(chars) \o to_string(Tail(chars))

\* str::parse::<f64> of digits, or digits '.' digits: the integer part is
\* the num of the Number, the digits of the fraction its str
RECURSIVE parse_digits(_, _)
parse_digits(chars, acc) ==
    IF chars = <<>> \/ ~is_ascii_digit(Head(chars)) THEN acc
    ELSE parse_digits(Tail(chars),
                      10 * acc + (CHOOSE d \in 0..9 : ToString(d) = Head(chars)))
RECURSIVE fraction_of(_)
fraction_of(chars) ==
    IF chars = <<>> THEN <<>>
    ELSE IF Head(chars) = "." THEN Tail(chars)
    ELSE fraction_of(Tail(chars))
parse_f64(chars) ==
    [variant |-> "Number", num |-> parse_digits(chars, 0),
     str |-> to_string(fraction_of(chars)), bool |-> FALSE]

Panic(sc) == [sc EXCEPT !.panic = TRUE]

\* JuniorBread::error(line, message)
JuniorBread_error(sc, message) ==
    [sc EXCEPT !.reports = Append(@, [line |-> sc.line, message |-> message])]

Scanner_is_at_end(sc) == sc.current >= str_len(source)

\* peek: NoChar when the unwrap panics
Scanner_peek(sc) ==
    IF Scanner_is_at_end(sc) THEN NUL ELSE chars_nth(source, sc.current)

Scanner_peek_next(sc, count) ==
    IF sc.current + count >= str_len(source) THEN NUL
    ELSE chars_nth(source, sc.current + count)

\* advance: the character is what chars_nth gives at the old current
Scanner_advance(sc) ==
    IF chars_nth(source, sc.current) = NoChar THEN Panic(sc)
    ELSE [sc EXCEPT !.current = @ + 1]

\* match_next that looks at the next character and leaves it
Scanner_match_next_peek(sc, expected) ==
    IF Scanner_is_at_end(sc) THEN [sc |-> sc, matched |-> FALSE]
    ELSE IF chars_nth(source, sc.current) = NoChar THEN [sc |-> Panic(sc), matched |-> FALSE]
    ELSE IF chars_nth(source, sc.current) # expected THEN [sc |-> sc, matched |-> FALSE]
    ELSE [sc |-> sc, matched |-> TRUE]

\* match_next: the Scanner after it and whether it matched
Scanner_match_next(sc, expected) ==
    IF Scanner_is_at_end(sc) THEN [sc |-> sc, matched |-> FALSE]
    ELSE IF chars_nth(source, sc.current) = NoChar THEN [sc |-> Panic(sc), matched |-> FALSE]
    ELSE IF chars_nth(source, sc.current) # expected THEN [sc |-> sc, matched |-> FALSE]
    ELSE [sc |-> [sc EXCEPT !.current = @ + 1], matched |-> TRUE]

Scanner_add_token(sc, token_type) ==
    IF ~slice_ok(source, sc.start, sc.current) THEN Panic(sc)
    ELSE [sc EXCEPT !.tokens =
              Append(@, Token(token_type, to_string(slice(source, sc.start, sc.current)),
                              None, sc.line))]

Scanner_add_token_with_value(sc, token_type, literal) ==
    IF ~slice_ok(source, sc.start, sc.current) THEN Panic(sc)
    ELSE [sc EXCEPT !.tokens =
              Append(@, Token(token_type, to_string(slice(source, sc.start, sc.current)),
                              literal, sc.line))]

\* the loop of a comment that consumes the newline as well
RECURSIVE comment_loop_with_newline(_)
comment_loop_with_newline(sc) ==
    IF sc.panic THEN sc
    ELSE IF Scanner_peek(sc) = NoChar THEN Panic(sc)
    ELSE IF ~Scanner_is_at_end(sc)
    THEN (IF Scanner_peek(sc) # "\n" THEN comment_loop_with_newline(Scanner_advance(sc))
          ELSE Scanner_advance(sc))
    ELSE sc

\* while self.peek() != '\n' && !self.is_at_end() { self.advance(); }
RECURSIVE comment_loop(_)
comment_loop(sc) ==
    IF sc.panic THEN sc
    ELSE IF Scanner_peek(sc) = NoChar THEN Panic(sc)
    ELSE IF Scanner_peek(sc) # "\n" /\ ~Scanner_is_at_end(sc)
    THEN comment_loop(Scanner_advance(sc))
    ELSE sc

\* while self.peek().is_alphanumeric() || self.peek() == '_' { self.advance(); }
RECURSIVE identifier_loop(_)
identifier_loop(sc) ==
    IF sc.panic THEN sc
    ELSE IF Scanner_peek(sc) = NoChar THEN Panic(sc)
    ELSE IF is_alphanumeric(Scanner_peek(sc)) \/ Scanner_peek(sc) = "_"
    THEN identifier_loop(Scanner_advance(sc))
    ELSE sc

\* identifier that gives the keywords true and false their Boolean as literal
Scanner_identifier_keyword_literal(sc0) ==
    LET sc == identifier_loop(sc0)
    IN  IF sc.panic THEN sc
        ELSE IF ~slice_ok(source, sc.start, sc.current) THEN Panic(sc)
        ELSE LET text == to_string(slice(source, sc.start, sc.current))
             IN  IF text \in {"true", "false"}
                 THEN Scanner_add_token_with_value(sc, KEYWORDS_MAP[text],
                                                   Boolean(text = "true"))
                 ELSE IF text \in DOMAIN KEYWORDS_MAP
                 THEN Scanner_add_token(sc, KEYWORDS_MAP[text])
                 ELSE Scanner_add_token(sc, "Identifier")

Scanner_identifier(sc0) ==
    LET sc == identifier_loop(sc0)
    IN  IF sc.panic THEN sc
        ELSE IF ~slice_ok(source, sc.start, sc.current) THEN Panic(sc)
        ELSE LET text == to_string(slice(source, sc.start, sc.current))
             IN  IF text \in DOMAIN KEYWORDS_MAP
                 THEN Scanner_add_token(sc, KEYWORDS_MAP[text])
                 ELSE Scanner_add_token(sc, "Identifier")

\* while self.peek().is_ascii_digit() { self.advance(); }
RECURSIVE digits_loop(_)
digits_loop(sc) ==
    IF sc.panic THEN sc
    ELSE IF Scanner_peek(sc) = NoChar THEN Panic(sc)
    ELSE IF is_ascii_digit(Scanner_peek(sc)) THEN digits_loop(Scanner_advance(sc))
    ELSE sc

\* number that takes a '.' after the digits whatever follows it
Scanner_number_trailing_dot(sc0) ==
    LET sc1 == digits_loop(sc0)
        sc2 == IF sc1.panic THEN sc1
               ELSE IF Scanner_peek(sc1) = "."
               THEN IF Scanner_peek_next(sc1, 1) = NoChar THEN Panic(sc1)
                    ELSE digits_loop(Scanner_advance(sc1))
               ELSE sc1
    IN  IF sc2.panic THEN sc2
        ELSE IF ~slice_ok(source, sc2.start, sc2.current) THEN Panic(sc2)
        ELSE Scanner_add_token_with_value(
                 sc2, "Number", parse_f64(slice(source, sc2.start, sc2.current)))

Scanner_number(sc0) ==
    LET sc1 == digits_loop(sc0)
        sc2 == IF sc1.panic THEN sc1
               ELSE IF Scanner_peek(sc1) = "."
               THEN IF Scanner_peek_next(sc1, 1) = NoChar THEN Panic(sc1)
                    ELSE IF is_ascii_digit(Scanner_peek_next(sc1, 1))
                    THEN digits_loop(Scanner_advance(sc1))
                    ELSE sc1
               ELSE sc1
    IN  IF sc2.panic THEN sc2
        ELSE IF ~slice_ok(source, sc2.start, sc2.current) THEN Panic(sc2)
        ELSE Scanner_add_token_with_value(
                 sc2, "Number", parse_f64(slice(source, sc2.start, sc2.current)))

\* while self.peek() != '"' && !self.is_at_end() { .. self.advance(); }
RECURSIVE string_loop(_)
string_loop(sc) ==
    IF sc.panic THEN sc
    ELSE IF Scanner_peek(sc) = NoChar THEN Panic(sc)
    ELSE IF Scanner_peek(sc) # "\"" /\ ~Scanner_is_at_end(sc)
    THEN string_loop(Scanner_advance(
             IF Scanner_peek(sc) = "\n" THEN [sc EXCEPT !.line = @ + 1] ELSE sc))
    ELSE sc

\* string, reporting the line of the opening quote
Scanner_string_opening_line(sc0) ==
    LET sc1 == string_loop(sc0)
    IN  IF sc1.panic THEN sc1
        ELSE IF Scanner_is_at_end(sc1)
        THEN [sc1 EXCEPT !.reports =
                  Append(@, [line |-> sc0.line, message |-> "Unterminated string."])]
        ELSE LET sc2 == Scanner_advance(sc1)
             IN  IF sc2.panic THEN sc2
                 ELSE IF ~slice_ok(source, sc2.start + 1, sc2.current - 1) THEN Panic(sc2)
                 ELSE Scanner_add_token_with_value(
                          sc2, "String",
                          String(to_string(slice(source, sc2.start + 1, sc2.current - 1))))

Scanner_string(sc0) ==
    LET sc1 == string_loop(sc0)
    IN  IF sc1.panic THEN sc1
        ELSE IF Scanner_is_at_end(sc1) THEN JuniorBread_error(sc1, "Unterminated string.")
        ELSE LET sc2 == Scanner_advance(sc1)
             IN  IF sc2.panic THEN sc2
                 ELSE IF ~slice_ok(source, sc2.start + 1, sc2.current - 1) THEN Panic(sc2)
                 ELSE Scanner_add_token_with_value(
                          sc2, "String",
                          String(to_string(slice(source, sc2.start + 1, sc2.current - 1))))

SingleCharTokens ==
    [c \in {"(", ")", "{", "}", ",", ".", "-", "+", ";", "*"} |->
        CASE c = "(" -> "LeftParen" [] c = ")" -> "RightParen"
          [] c = "{" -> "LeftBrace" [] c = "}" -> "RightBrace"
          [] c = "," -> "Comma" [] c = "." -> "Dot" [] c = "-" -> "Minus"
          [] c = "+" -> "Plus" [] c = ";" -> "Semicolon" [] c = "*" -> "Star"]

\* the arms of '!', '=', '<' and '>'
one_or_two(sc, two, one) ==
    LET m == Scanner_match_next(sc, "=")
    IN  IF m.sc.panic THEN m.sc
        ELSE IF m.matched THEN Scanner_add_token(m.sc, two)
        ELSE Scanner_add_token(m.sc, one)

Scanner_scan_single_token(sc0) ==
    LET chr == chars_nth(source, sc0.current)
        sc == Scanner_advance(sc0)
    IN  IF sc.panic THEN sc
        ELSE IF chr \in DOMAIN SingleCharTokens THEN Scanner_add_token(sc, SingleCharTokens[chr])
        ELSE IF chr = "!" THEN one_or_two(sc, "BangEqual", "Bang")
        ELSE IF chr = "=" THEN one_or_two(sc, "EqualEqual", "Equal")
        ELSE IF chr = "<" THEN one_or_two(sc, "LessEqual", "Less")
        ELSE IF chr = ">" THEN one_or_two(sc, "GreaterEqual", "Greater")
        ELSE IF chr = "/" THEN
            LET m == Scanner_match_next(sc, "/")
            IN  IF m.sc.panic THEN m.sc
                ELSE IF m.matched THEN comment_loop(m.sc)
                ELSE Scanner_add_token(m.sc, "Slash")
        ELSE IF chr \in {"\t", "\r", " "} THEN sc
        ELSE IF chr = "\n" THEN [sc EXCEPT !.line = @ + 1]
        ELSE IF chr = "\"" THEN Scanner_string(sc)
        ELSE IF is_ascii_digit(chr) THEN Scanner_number(sc)
        ELSE IF chr \in AsciiLetters \cup {"_"} THEN Scanner_identifier(sc)
        ELSE JuniorBread_error(sc, "Unexpected character.")

\* the Scanner value of the variables
Scanner ==
    [tokens |-> tokens, start |-> start, current |-> current, line |-> line,
     reports |-> reports, panic |-> FALSE]

\* one turn of the loop of scan_tokens
ScanSingleToken ==
    /\ scan_pc = "scan"
    /\ ~Scanner_is_at_end(Scanner)
    /\ LET sc == Scanner_scan_single_token([Scanner EXCEPT !.start = current])
       IN  /\ tokens' = sc.tokens
           /\ start' = sc.start
           /\ current' = sc.current
           /\ line' = sc.line
           /\ reports' = sc.reports
           /\ scan_pc' = IF sc.panic THEN "panic" ELSE "scan"
    /\ UNCHANGED source
    /\ UNCHANGED interp_vars
    /\ UNCHANGED <<parse_vars, run_vars>>

\* the end of scan_tokens with the Eof token on the line of the last token
ScanEof_last_token_line ==
    /\ scan_pc = "scan"
    /\ Scanner_is_at_end(Scanner)
    /\ tokens' = Append(tokens, Token("Eof", "", None,
                                      IF tokens = <<>> THEN 1 ELSE tokens[Len(tokens)].line))
    /\ scan_pc' = "done"
    /\ UNCHANGED <<source, start, current, line, reports>>
    /\ UNCHANGED interp_vars
    /\ UNCHANGED <<parse_vars, run_vars>>

\* the end of scan_tokens: the Eof token
ScanEof ==
    /\ scan_pc = "scan"
    /\ Scanner_is_at_end(Scanner)
    /\ tokens' = Append(tokens, Token("Eof", "", None, line))
    /\ scan_pc' = "done"
    /\ UNCHANGED <<source, start, current, line, reports>>
    /\ UNCHANGED interp_vars
    /\ UNCHANGED <<parse_vars, run_vars>>

\* the characters of the sources
CharInputs == {"1", ".", "+", "=", "/", "\n", "\"", "a", "@", "é", " ", "\t", "\r"}

RECURSIVE Strings(_)
Strings(n) ==
    IF n = 0 THEN {<<>>}
    ELSE Strings(n - 1) \cup {Append(w, c) : w \in Strings(n - 1), c \in CharInputs}

Sources == Strings(MaxSrcLen)

\* the characters of the one- and two-character operators, and a digit
OperatorChars == {"!", "=", "<", ">", "1"}

RECURSIVE OperatorStrings(_)
OperatorStrings(n) ==
    IF n = 0 THEN {<<>>}
    ELSE OperatorStrings(n - 1)
             \cup {Append(w, c) : w \in OperatorStrings(n - 1), c \in OperatorChars}

\* sources longer than MaxSrcLen or with other characters: the source of
\* test_scanner_addition, a comment between two lines, a number with a
\* fraction and the keywords of the literals
LongerSources ==
    { <<"1", " ", "+", " ", "2">>,
      <<"1", "/", "/", "a", "\n", "1">>,
      <<"1", ".", "5">>,
      <<"n", "i", "l">>,
      <<"t", "r", "u", "e">>,
      <<"f", "a", "l", "s", "e">> }

\* Scanner::new(source), then scan_tokens
InitScan ==
    /\ source \in Sources \cup OperatorStrings(MaxSrcLen) \cup LongerSources
    /\ tokens = <<>>
    /\ start = 0
    /\ current = 0
    /\ line = 1
    /\ scan_pc = "scan"
    /\ reports = <<>>
    /\ envs = [i \in {1} |-> Environment_default]
    /\ InterpIdle
    /\ call = NoCall
    /\ ret = NoResult
    /\ ParseIdle
    /\ RunIdle

NextScan ==
    \/ ScanSingleToken
    \/ ScanEof

SpecScan == InitScan /\ [][NextScan]_vars

(***************************************************************************)
(* parser.rs.  Parser.tokens is the variable tokens, a token sequence that *)
(* ends with an Eof token, and Parser.current counts from 0.  A parsing    *)
(* function takes the value of current and gives what it returned, the     *)
(* value of current after it, and whether it panicked.                     *)
(***************************************************************************)
Parsed(res, c) == [res |-> res, current |-> c, panic |-> FALSE]
Panicked(c) == [res |-> NoResult, current |-> c, panic |-> TRUE]
Failed(r) == r.panic \/ r.res.tag = "Err"

Parser_peek(c) == tokens[c + 1]
Parser_is_at_end(c) == Parser_peek(c).token_type = "Eof"
Parser_check(c, token_types) ==
    ~Parser_is_at_end(c) /\ Parser_peek(c).token_type \in token_types

\* previous: tokens.get(current - 1).unwrap() does not return when current = 0
previous_ok(c) == c >= 1
Parser_previous(c) == tokens[c]

Parser_error(peek, arg) == ParseError(Error(peek.line, peek.lexeme, arg))

\* consume that returns the expected token and leaves the cursor on it
Parser_consume_stay(c, token_type, arg) ==
    IF Parser_check(c, {token_type}) THEN Parsed(Ok(Parser_peek(c)), c)
    ELSE Parsed(Err(Parser_error(Parser_peek(c), arg)), c)

\* consume: Ok(the token) and the cursor after it, or the error at the cursor
Parser_consume(c, token_type, arg) ==
    IF Parser_check(c, {token_type}) THEN Parsed(Ok(Parser_peek(c)), c + 1)
    ELSE Parsed(Err(Parser_error(Parser_peek(c), arg)), c)

RECURSIVE Parser_assignment(_)
RECURSIVE Parser_unary(_)
RECURSIVE Parser_statement(_)

Parser_expression(c) == Parser_assignment(c)

\* the arm of '(' in primary once the expression inside was parsed, paren
\* being what consume returned for the ')'
grouping_close(expr, paren) ==
    IF paren.res.tag = "Ok" THEN Parsed(Ok(Grouping(expr.res.value)), paren.current)
    ELSE Panicked(paren.current)
grouping(expr) ==
    IF Failed(expr) THEN expr
    ELSE grouping_close(expr, Parser_consume(expr.current, "RightParen",
                                             "Expect ')' after expression."))

Parser_primary(c) ==
    IF Parser_check(c, {"False"}) THEN Parsed(Ok(Literal(Boolean(FALSE))), c + 1)
    ELSE IF Parser_check(c, {"True"}) THEN Parsed(Ok(Literal(Boolean(TRUE))), c + 1)
    ELSE IF Parser_check(c, {"Nil"}) THEN Parsed(Ok(Literal(None)), c + 1)
    ELSE IF Parser_check(c, {"NaN"}) THEN Parsed(Ok(Literal(NaN)), c + 1)
    ELSE IF Parser_check(c, {"String", "Number"})
    THEN Parsed(Ok(Literal(Parser_peek(c).literal)), c + 1)
    ELSE IF Parser_check(c, {"Identifier"}) THEN Parsed(Ok(Variable(Parser_peek(c))), c + 1)
    ELSE IF Parser_check(c, {"LeftParen"}) THEN grouping(Parser_expression(c + 1))
    ELSE IF previous_ok(c)
    THEN Parsed(Err(Parser_error(Parser_previous(c), "Expected Expression")), c)
    ELSE Panicked(c)

\* Ok(Expr::Unary(..)) once the operand was parsed
unary_node(operator, right) ==
    IF Failed(right) THEN right
    ELSE Parsed(Ok(Unary(operator, right.res.value)), right.current)

Parser_unary(c) ==
    IF Parser_check(c, {"Bang", "Minus"})
    THEN unary_node(Parser_peek(c), Parser_unary(c + 1))
    ELSE Parser_primary(c)

\* the loop of factor, taking '+' for an operator of factor as well
RECURSIVE factor_loop_with_plus(_, _)
factor_next_with_plus(expr, operator, right) ==
    IF Failed(right) THEN right
    ELSE factor_loop_with_plus(Binary(expr, operator, right.res.value), right.current)
factor_loop_with_plus(expr, c) ==
    IF Parser_check(c, {"Slash", "Star", "Plus"})
    THEN factor_next_with_plus(expr, Parser_peek(c), Parser_unary(c + 1))
    ELSE Parsed(Ok(expr), c)

\* the loop of factor, expr being the expression accumulated so far; the
\* body of the loop once the right operand was parsed
RECURSIVE factor_loop(_, _)
factor_next(expr, operator, right) ==
    IF Failed(right) THEN right
    ELSE factor_loop(Binary(expr, operator, right.res.value), right.current)
factor_loop(expr, c) ==
    IF Parser_check(c, {"Slash", "Star"})
    THEN factor_next(expr, Parser_peek(c), Parser_unary(c + 1))
    ELSE Parsed(Ok(expr), c)

\* the loop of a binary rule after its first operand: self.unary()? and so on
factor_first(expr) ==
    IF Failed(expr) THEN expr ELSE factor_loop(expr.res.value, expr.current)
Parser_factor(c) == factor_first(Parser_unary(c))

\* the loop of term, giving the rest of the chain to the operator as its right operand
RECURSIVE term_loop_right(_, _)
term_rest_right(expr, operator, rest) ==
    IF Failed(rest) THEN rest
    ELSE Parsed(Ok(Binary(expr, operator, rest.res.value)), rest.current)
term_next_right(expr, operator, right) ==
    IF Failed(right) THEN right
    ELSE term_rest_right(expr, operator, term_loop_right(right.res.value, right.current))
term_loop_right(expr, c) ==
    IF Parser_check(c, {"Minus", "Plus"})
    THEN term_next_right(expr, Parser_peek(c), Parser_factor(c + 1))
    ELSE Parsed(Ok(expr), c)

RECURSIVE term_loop(_, _)
term_next(expr, operator, right) ==
    IF Failed(right) THEN right
    ELSE term_loop(Binary(expr, operator, right.res.value), right.current)
term_loop(expr, c) ==
    IF Parser_check(c, {"Minus", "Plus"})
    THEN term_next(expr, Parser_peek(c), Parser_factor(c + 1))
    ELSE Parsed(Ok(expr), c)

term_first(expr) ==
    IF Failed(expr) THEN expr ELSE term_loop(expr.res.value, expr.current)
Parser_term(c) == term_first(Parser_factor(c))

RECURSIVE comparison_loop(_, _)
comparison_next(expr, operator, right) ==
    IF Failed(right) THEN right
    ELSE comparison_loop(Binary(expr, operator, right.res.value), right.current)
comparison_loop(expr, c) ==
    IF Parser_check(c, {"Greater", "GreaterEqual", "Less", "LessEqual"})
    THEN comparison_next(expr, Parser_peek(c), Parser_term(c + 1))
    ELSE Parsed(Ok(expr), c)

comparison_first(expr) ==
    IF Failed(expr) THEN expr ELSE comparison_loop(expr.res.value, expr.current)
Parser_comparison(c) == comparison_first(Parser_term(c))

RECURSIVE equality_loop(_, _)
equality_next(expr, operator, right) ==
    IF Failed(right) THEN right
    ELSE equality_loop(Binary(expr, operator, right.res.value), right.current)
equality_loop(expr, c) ==
    IF Parser_check(c, {"BangEqual", "EqualEqual"})
    THEN equality_next(expr, Parser_peek(c), Parser_comparison(c + 1))
    ELSE Parsed(Ok(expr), c)

equality_first(expr) ==
    IF Failed(expr) THEN expr ELSE equality_loop(expr.res.value, expr.current)
Parser_equality(c) == equality_first(Parser_comparison(c))

\* the match on expr in assignment once the value was parsed, giving the
\* value for a target that is no Variable
assignment_target_any(expr, equals, value) ==
    IF Failed(value) THEN value
    ELSE IF expr.res.value.node = "Variable"
    THEN Parsed(Ok(Assign(expr.res.value.name, value.res.value)), value.current)
    ELSE value

\* the match on expr in assignment once the value was parsed
assignment_target(expr, equals, value) ==
    IF Failed(value) THEN value
    ELSE IF expr.res.value.node = "Variable"
    THEN Parsed(Ok(Assign(expr.res.value.name, value.res.value)), value.current)
    ELSE Parsed(Err(Parser_error(equals, "Invalid assignment target")), value.current)

\* assignment once the expression left of a possible '=' was parsed
assignment_rest(expr) ==
    IF Failed(expr) THEN expr
    ELSE IF Parser_check(expr.current, {"Equal"})
    THEN assignment_target(expr, Parser_peek(expr.current),
                           Parser_assignment(expr.current + 1))
    ELSE expr

Parser_assignment(c) == assignment_rest(Parser_equality(c))

\* var_decleration once the ';' was consumed, initializer being the
\* Option of the initializer
var_node(name, initializer, semi) ==
    IF Failed(semi) THEN semi
    ELSE Parsed(Ok(Var(name.res.value, initializer)), semi.current)

\* var_decleration once the initializer was parsed
var_initialized(name, init) ==
    IF Failed(init) THEN init
    ELSE var_node(name, <<init.res.value>>,
                  Parser_consume(init.current, "Semicolon",
                                 "Expected ';' after variable declaration"))

\* var_decleration once the name was consumed
var_named(name) ==
    IF Failed(name) THEN name
    ELSE IF Parser_check(name.current, {"Equal"})
    THEN var_initialized(name, Parser_expression(name.current + 1))
    ELSE var_node(name, <<>>,
                  Parser_consume(name.current, "Semicolon",
                                 "Expected ';' after variable declaration"))

Parser_var_decleration(c) ==
    var_named(Parser_consume(c, "Identifier", "Expected a variable name"))

\* expression_statement once the ';' was consumed, and once the expression was parsed
expression_node(expr, semi) ==
    IF Failed(semi) THEN semi ELSE Parsed(Ok(Expression(expr.res.value)), semi.current)
expression_parsed(expr) ==
    IF Failed(expr) THEN expr
    ELSE expression_node(expr, Parser_consume(expr.current, "Semicolon",
                                              "Expect ';' after expression."))

Parser_expression_statement(c) == expression_parsed(Parser_expression(c))

\* print_statement once the ';' was consumed, and once the expression was parsed
print_node(expr, semi) ==
    IF Failed(semi) THEN semi ELSE Parsed(Ok(PrintStmt(expr.res.value)), semi.current)
print_parsed(expr) ==
    IF Failed(expr) THEN expr
    ELSE print_node(expr, Parser_consume(expr.current, "Semicolon",
                                         "Expect ';' after value."))

Parser_print_statement(c) == print_parsed(Parser_expression(c))

\* the loop of block_statement, putting each statement before the ones collected so far
RECURSIVE block_loop_prepend(_, _)
block_next_prepend(stmts, s) ==
    IF Failed(s) THEN s ELSE block_loop_prepend(<<s.res.value>> \o stmts, s.current)
block_loop_prepend(stmts, c) ==
    IF ~Parser_check(c, {"RightBrace"}) /\ ~Parser_is_at_end(c)
    THEN block_next_prepend(stmts, Parser_statement(c))
    ELSE Parsed(Ok(stmts), c)

\* the loop of block_statement, stmts being the statements collected so
\* far; the body of the loop once the statement was parsed
RECURSIVE block_loop(_, _)
block_next(stmts, s) ==
    IF Failed(s) THEN s ELSE block_loop(Append(stmts, s.res.value), s.current)
block_loop(stmts, c) ==
    IF ~Parser_check(c, {"RightBrace"}) /\ ~Parser_is_at_end(c)
    THEN block_next(stmts, Parser_statement(c))
    ELSE Parsed(Ok(stmts), c)

\* block_statement once the '}' was consumed, and once the loop has ended
block_node(stmts, brace) ==
    IF Failed(brace) THEN brace ELSE Parsed(Ok(Block(stmts.res.value)), brace.current)
block_collected(stmts) ==
    IF Failed(stmts) THEN stmts
    ELSE block_node(stmts, Parser_consume(stmts.current, "RightBrace",
                                          "Expect '}' after block."))

Parser_block_statement(c) == block_collected(block_loop(<<>>, c))

Parser_statement(c) ==
    IF Parser_check(c, {"Var"}) THEN Parser_var_decleration(c + 1)
    ELSE IF Parser_check(c, {"Print"}) THEN Parser_print_statement(c + 1)
    ELSE IF Parser_check(c, {"LeftBrace"}) THEN Parser_block_statement(c + 1)
    ELSE Parser_expression_statement(c)

\* the Parser and what it returned after a call of expression() that gave r
expression_returned(r) ==
    /\ parser_current' = r.current
    /\ ast' = r.res
    /\ parse_pc' = IF r.panic THEN "panic" ELSE "done"

\* parser.expression() on a new Parser, as the unit tests call it
ParseExpression ==
    /\ parse_pc = "new"
    /\ expression_returned(Parser_expression(parser_current))
    /\ call' = Call("expression", NoEnv, "", Unit)
    /\ UNCHANGED <<envs, frames, output, result, ret>>
    /\ UNCHANGED <<scan_vars, parse_statements, run_vars>>

\* the Parser and the statements of parse after a call of statement() that gave r
statement_returned(r) ==
    /\ parser_current' = r.current
    /\ parse_statements' =
           IF Failed(r) THEN parse_statements ELSE Append(parse_statements, r.res.value)
    /\ ast' = IF ~r.panic /\ r.res.tag = "Err" THEN r.res ELSE ast
    /\ parse_pc' = IF r.panic THEN "panic"
                   ELSE IF r.res.tag = "Err" THEN "done"
                   ELSE "parse"

\* one turn of the loop of parse: statements.push(self.statement()?)
ParseStatement ==
    /\ parse_pc \in {"new", "parse"}
    /\ ~Parser_is_at_end(parser_current)
    /\ statement_returned(Parser_statement(parser_current))
    /\ call' = Call("statement", NoEnv, "", Unit)
    /\ UNCHANGED <<envs, frames, output, result, ret>>
    /\ UNCHANGED <<scan_vars, run_vars>>

\* the end of parse: Ok(statements)
ParseReturn ==
    /\ parse_pc \in {"new", "parse"}
    /\ Parser_is_at_end(parser_current)
    /\ ast' = Ok(parse_statements)
    /\ parse_pc' = "done"
    /\ call' = Call("parse", NoEnv, "", Unit)
    /\ UNCHANGED <<envs, frames, output, result, ret>>
    /\ UNCHANGED <<scan_vars, parser_current, parse_statements, run_vars>>

\* the lexeme and the literal of the tokens of each type given to the parser
TokenLexemes ==
    ("Number" :> "1") @@ ("Identifier" :> "a") @@ ("EqualEqual" :> "==") @@ ("Less" :> "<")
    @@ ("Plus" :> "+") @@ ("Star" :> "*") @@ ("Minus" :> "-") @@ ("Bang" :> "!")
    @@ ("Equal" :> "=") @@ ("LeftParen" :> "(") @@ ("RightParen" :> ")")
    @@ ("LeftBrace" :> "{") @@ ("RightBrace" :> "}") @@ ("Semicolon" :> ";")
    @@ ("Var" :> "var") @@ ("Print" :> "print") @@ ("True" :> "true") @@ ("Nil" :> "nil")
TokenLiteral(token_type) == IF token_type = "Number" THEN Number(1) ELSE None

\* the token types a token sequence is drawn from
Vocabularies ==
    { {"Number", "EqualEqual", "Less"},
      {"Number", "Less", "Plus"},
      {"Number", "Plus", "Star"},
      {"Number", "Plus", "Minus"},
      {"Number", "Star", "Minus"},
      {"Number", "Minus", "Bang"},
      {"Identifier", "Number", "Equal", "Minus"},
      {"Identifier", "Equal", "LeftParen", "RightParen"},
      {"Number", "Semicolon", "LeftParen", "RightParen"},
      {"Var", "Identifier", "Equal", "Semicolon"},
      {"LeftBrace", "RightBrace", "Identifier", "Semicolon"},
      {"Print", "True", "Nil", "Semicolon"} }

\* the sequences of at most n token types of a vocabulary
RECURSIVE TypeSeqs(_, _)
TypeSeqs(voc, n) ==
    IF n = 0 THEN {<<>>}
    ELSE TypeSeqs(voc, n - 1) \cup {Append(w, t) : w \in TypeSeqs(voc, n - 1), t \in voc}

\* the tokens of a sequence of types, the i-th on line i, and the Eof token
TokensOf(types) ==
    [i \in 1..(Len(types) + 1) |->
        IF i <= Len(types)
        THEN Token(types[i], TokenLexemes[types[i]], TokenLiteral(types[i]), i)
        ELSE Token("Eof", "", None, i)]

\* Parser::new(&tokens)
InitParse ==
    /\ \E voc \in Vocabularies : \E types \in TypeSeqs(voc, MaxTokens) :
           tokens = TokensOf(types)
    /\ source = <<>>
    /\ start = 0
    /\ current = 0
    /\ line = 1
    /\ scan_pc = "idle"
    /\ reports = <<>>
    /\ parser_current = 0
    /\ parse_statements = <<>>
    /\ ast = NoResult
    /\ parse_pc = "new"
    /\ envs = [i \in {1} |-> Environment_default]
    /\ InterpIdle
    /\ call = NoCall
    /\ ret = NoResult
    /\ RunIdle

NextParse ==
    \/ ParseExpression
    \/ ParseStatement
    \/ ParseReturn

SpecParse == InitParse /\ [][NextParse]_vars

(***************************************************************************)
(* lib.rs: JuniorBread::run_file, which reads the source, calls run on it  *)
(* with a default Interpreter and ends the process.  run scans, parses and *)
(* interprets with the steps of the Scanner, the Parser and the            *)
(* Interpreter above.                                                      *)
(***************************************************************************)
\* set_error: HAS_ERROR is a const item, so the Mutex that is locked and
\* written is a temporary of this expression; the field has_error and every
\* later use of HAS_ERROR are as they were
set_error(flag) == flag

\* JBreadErrors::report, which writes the error to stderr
report(errs, err) == Append(errs, [line |-> err.error.line, message |-> err.error.message])

\* Parser::new(scanner.scan_tokens()) once the scan has returned
RunParse ==
    /\ run_pc = "scan"
    /\ scan_pc = "done"
    /\ run_pc' = "parse"
    /\ parse_pc' = "new"
    /\ parser_current' = 0
    /\ UNCHANGED <<parse_statements, ast, has_error, exit_status>>
    /\ UNCHANGED scan_vars
    /\ UNCHANGED interp_vars

\* run with the parsed statements although the parse failed
RunParseFailed_interpret ==
    /\ run_pc = "parse"
    /\ parse_pc = "done"
    /\ ast.tag = "Err"
    /\ frames' = <<Frame(1, parse_statements)>>
    /\ run_pc' = "interpret"
    /\ UNCHANGED <<envs, output, result, call, ret>>
    /\ UNCHANGED <<scan_vars, parse_vars, has_error, exit_status>>

\* if let Err(error) = &ast { error.report(); Self::set_error(); return; }
RunParseFailed ==
    /\ run_pc = "parse"
    /\ parse_pc = "done"
    /\ ast.tag = "Err"
    /\ reports' = report(reports, ast.err)
    /\ has_error' = set_error(has_error)
    /\ run_pc' = "returned"
    /\ UNCHANGED <<source, tokens, start, current, line, scan_pc>>
    /\ UNCHANGED <<parse_vars, exit_status>>
    /\ UNCHANGED interp_vars

\* dbg!(scanner.scan_tokens()), a second pass of the scanner at the end of
\* the source, and the call of interpreter.interpret(&ast)
RunInterpret ==
    /\ run_pc = "parse"
    /\ parse_pc = "done"
    /\ ast.tag = "Ok"
    /\ tokens' = Append(tokens, Token("Eof", "", None, line))
    /\ frames' = <<Frame(1, ast.value)>>
    /\ run_pc' = "interpret"
    /\ UNCHANGED <<envs, output, result, call, ret>>
    /\ UNCHANGED <<source, start, current, line, scan_pc, reports>>
    /\ UNCHANGED <<parse_vars, has_error, exit_status>>

\* if let Err(err) = &result { err.report(); Self::set_error(); return; }
RunInterpreted ==
    /\ run_pc = "interpret"
    /\ result.tag # "Running"
    /\ reports' = IF result.tag = "Err" THEN report(reports, result.err) ELSE reports
    /\ has_error' = IF result.tag = "Err" THEN set_error(has_error) ELSE has_error
    /\ run_pc' = "returned"
    /\ UNCHANGED <<source, tokens, start, current, line, scan_pc>>
    /\ UNCHANGED <<parse_vars, exit_status>>
    /\ UNCHANGED interp_vars

\* if self.has_error { std::process::exit(65); } and the end of the process
RunFileExit ==
    /\ run_pc = "returned"
    /\ exit_status' = IF has_error THEN 65 ELSE 0
    /\ run_pc' = "exited"
    /\ UNCHANGED has_error
    /\ UNCHANGED <<scan_vars, parse_vars>>
    /\ UNCHANGED interp_vars

\* the pieces of text the source files are made of
Phrases ==
    { <<"p", "r", "i", "n", "t", " ", "a", ";">>,
      <<"v", "a", "r", " ", "a", "=", "1", ";">>,
      <<"{">>, <<"}">>, <<"(">>, <<"1">>, <<";">> }

\* the texts of at most n phrases
RECURSIVE Texts(_)
Texts(n) ==
    IF n = 0 THEN {<<>>}
    ELSE Texts(n - 1) \cup {w \o ph : w \in Texts(n - 1), ph \in Phrases}

\* JuniorBread::new().run_file(path): Interpreter::default, the contents of
\* the file, Scanner::new(source)
InitRun ==
    /\ source \in Texts(MaxPhrases)
    /\ tokens = <<>>
    /\ start = 0
    /\ current = 0
    /\ line = 1
    /\ scan_pc = "scan"
    /\ reports = <<>>
    /\ ParseIdle
    /\ has_error = FALSE
    /\ run_pc = "scan"
    /\ exit_status = 0
    /\ envs = [i \in {1} |-> Environment_default]
    /\ InterpIdle
    /\ call = NoCall
    /\ ret = NoResult

NextRun ==
    \/ ScanSingleToken
    \/ ScanEof
    \/ RunParse
    \/ (run_pc = "parse" /\ ParseStatement)
    \/ (run_pc = "parse" /\ ParseReturn)
    \/ RunParseFailed
    \/ RunInterpret
    \/ (run_pc = "interpret" /\ Next)
    \/ RunInterpreted
    \/ RunFileExit

SpecRun == InitRun /\ [][NextRun]_vars

(***************************************************************************)
(* Properties of the Environment (SpecEnv)                                 *)
(***************************************************************************)
\* the scopes from scope self outward, self first
RECURSIVE ScopeChain(_, _)
ScopeChain(heap, self) ==
    IF self = NoEnv THEN <<>> ELSE <<self>> \o ScopeChain(heap, heap[self].encolosing)

\* the innermost scope of the chain of self that has an entry for name, NoEnv if none has
Binder(heap, self, name) ==
    LET chain == ScopeChain(heap, self)
        binding == {k \in 1..Len(chain) : heap[chain[k]].values[name] # Absent}
    IN  IF binding = {} THEN NoEnv
        ELSE chain[CHOOSE k \in binding : \A j \in binding : k <= j]

\* C4: assign(name, value) sets the entry of name in the innermost scope of
\* the chain that has one and changes nothing else; when no scope of the
\* chain has one it returns a RunTimeException and changes no scope.
AssignChangesOneBinding ==
    [][call'.op = "assign" =>
        LET b == Binder(envs, call'.env, call'.name)
        IN  IF b = NoEnv
            THEN /\ ret'.tag = "Err"
                 /\ ret'.err.kind = "RunTimeException"
                 /\ envs' = envs
            ELSE /\ ret' = Ok(Unit)
                 /\ DOMAIN envs' = DOMAIN envs
                 /\ \A i \in DOMAIN envs :
                      /\ envs'[i].encolosing = envs[i].encolosing
                      /\ \A m \in Names :
                           envs'[i].values[m] =
                               IF i = b /\ m = call'.name THEN call'.value
                               ELSE envs[i].values[m]]_vars

\* an assign on a scope without the name has written the enclosing scope
AssignOuterWitness ==
    /\ call.op = "assign"
    /\ ret.tag = "Ok"
    /\ envs[call.env].values[call.name] = Absent
    /\ envs[call.env].encolosing # NoEnv
    /\ envs[envs[call.env].encolosing].values[call.name] = call.value

\* C5: get(name), and a Variable expression, return the value of the
\* innermost scope of the chain that has an entry for the name, and the
\* RunTimeException "Undefined variable" exactly when no scope has one.
GetInnermostOrUndefined ==
    [][call'.op \in {"get", "visit_expr_variable"} =>
        LET b == Binder(envs, call'.env, call'.name)
        IN  IF b = NoEnv
            THEN ret' = Err(RunTimeException(Error(1, call'.name, "Undefined variable")))
            ELSE ret' = Ok(envs[b].values[call'.name])]_vars

\* a Variable expression on a scope with an enclosing scope, when no scope has the name
GetUndefinedWitness ==
    /\ call.op = "visit_expr_variable"
    /\ ret.tag = "Err"
    /\ envs[call.env].encolosing # NoEnv
    /\ \A i \in DOMAIN envs : envs[i].values[call.name] = Absent

\* C6: define(name, value) sets the entry of name in this scope, whether
\* or not it had one, returns, and changes no other entry and no other scope.
DefineThisScopeOnly ==
    [][call'.op = "define" =>
        /\ ret' = Ok(Unit)
        /\ DOMAIN envs' = DOMAIN envs
        /\ \A i \in DOMAIN envs :
             /\ envs'[i].encolosing = envs[i].encolosing
             /\ \A m \in Names :
                  envs'[i].values[m] =
                      IF i = call'.env /\ m = call'.name THEN call'.value
                      ELSE envs[i].values[m]]_vars

\* a define of a name on a scope whose enclosing scope binds it to another value
DefineShadowWitness ==
    /\ call.op = "define"
    /\ envs[call.env].encolosing # NoEnv
    /\ envs[envs[call.env].encolosing].values[call.name] \notin {Absent, call.value}
    /\ envs[call.env].values[call.name] = call.value

\* C7: a lookup, successful or failed, leaves every scope as it was.
LookupChangesNothing ==
    [][call'.op \in {"get", "visit_expr_variable"} => envs' = envs]_vars

\* a failed lookup and a heap of more than one scope
LookupFailedWitness ==
    /\ call.op = "get"
    /\ ret.tag = "Err"
    /\ Cardinality(DOMAIN envs) > 1

(***************************************************************************)
(* Properties of the Interpreter (Spec)                                    *)
(***************************************************************************)
\* the names an expression assigns to
RECURSIVE AssignedNames(_)
AssignedNames(e) ==
    IF e.node = "Assign" THEN {e.name.lexeme} \cup AssignedNames(e.value)
    ELSE IF e.node = "Binary" THEN AssignedNames(e.left) \cup AssignedNames(e.right)
    ELSE IF e.node = "Unary" THEN AssignedNames(e.right)
    ELSE IF e.node = "Grouping" THEN AssignedNames(e.expression)
    ELSE {}

\* the expressions a statement evaluates itself
StmtExprs(s) ==
    IF s.node \in {"Expression", "Print"} THEN {s.expression}
    ELSE IF s.node = "Var" /\ s.initializer # <<>> THEN {s.initializer[1]}
    ELSE {}

\* a statement other than a block is about to be executed
AtSimpleStmt ==
    /\ result.tag = "Running"
    /\ ret.tag \notin {"Err", "Panic"}
    /\ cur.idx <= Len(cur.statements)
    /\ stmt.node # "Block"

Undefined(name) == Err(RunTimeException(Error(1, name, "Undefined variable")))

\* C1: interpret executes the statements in order; the statement that fails
\* ends the execution: its error is what interpret returns, nothing is
\* executed, printed or bound after it, and what was bound before it stays.
InterpretStopsAtFirstFailure ==
    /\ [][/\ frames'[1].statements = frames[1].statements
          /\ frames'[1].idx \in {frames[1].idx, frames[1].idx + 1}
          /\ (AtSimpleStmt /\ \E e \in StmtExprs(stmt) :
                                 evalute(envs, cur.environment, e).res.tag = "Err")
               => /\ \A e \in StmtExprs(stmt) : ret' = evalute(envs, cur.environment, e).res
                  /\ frames' = frames
                  /\ output' = output
                  /\ DOMAIN envs' = DOMAIN envs
                  /\ \A i \in DOMAIN envs, n \in Names :
                       envs'[i].values[n] # envs[i].values[n]
                           => \E e \in StmtExprs(stmt) : n \in AssignedNames(e)
          /\ ret.tag = "Err"
               => /\ ret' = ret
                  /\ output' = output
                  /\ Len(frames') <= Len(frames)
                  /\ \A j \in 1..Len(frames') : frames'[j] = frames[j]
                  /\ \A i \in DOMAIN envs' : envs'[i] = envs[i]
                  /\ result' \in {result, ret}
          /\ result.tag # "Running"
               => /\ result' = result
                  /\ envs' = envs
                  /\ output' = output]_vars
    /\ [](result.tag = "Err" => result = ret /\ frames[1].idx <= Len(frames[1].statements))

\* interpret has returned the error of the second of three statements: the
\* first has bound a, the third, a print, has printed nothing
InterpretFailedWitness ==
    /\ result.tag = "Err"
    /\ Len(frames[1].statements) = 3
    /\ frames[1].idx = 2
    /\ frames[1].statements[3].node = "Print"
    /\ envs[1].values["a"] # Absent
    /\ output = <<>>

\* C2: what a block declares is bound in the scope of the block only and is
\* gone after the block, when a read of the name resolves to the binding of
\* an outer scope or fails as undefined; an assignment in a block to a name
\* that only an outer scope binds writes that outer binding, and reads after
\* the block see the value.
BlockScoping ==
    [][/\ (AtStmt("Var") /\ depth > 1 /\ call'.op = "visit_stmt_var")
            => \A i \in DOMAIN envs, n \in Names :
                 (envs'[i].values[n] # envs[i].values[n] /\ i # cur.environment)
                     => \E e \in StmtExprs(stmt) : n \in AssignedNames(e)
       /\ (AtStmt("Expression") /\ depth > 1 /\ call'.op = "visit_stmt_expression"
             /\ stmt.expression.node = "Assign"
             /\ stmt.expression.value.node = "Literal"
             /\ ~contains_key(envs[cur.environment].values, stmt.expression.name.lexeme)
             /\ Binder(envs, cur.environment, stmt.expression.name.lexeme) # NoEnv)
            => LET n == stmt.expression.name.lexeme
                   b == Binder(envs, cur.environment, n)
               IN  /\ envs'[b].values[n] = stmt.expression.value.value
                   /\ envs'[cur.environment].values[n] = Absent
       /\ (Len(frames') < Len(frames))
            => LET child == cur.environment
                   outer == frames'[Len(frames')].environment
               IN  \A n \in Names :
                     LET after == Environment_get(envs', outer, Ident(n)).res
                         b == Binder(envs, envs[child].encolosing, n)
                     IN  IF contains_key(envs[child].values, n)
                         THEN after = IF b = NoEnv THEN Undefined(n)
                                      ELSE Ok(envs[b].values[n])
                         ELSE after = Environment_get(envs, child, Ident(n)).res]_vars

\* after var a = 2; { a = 3; } the global scope binds a to 3
BlockAssignWitness ==
    /\ frames[1].statements =
           << Var(Ident("a"), <<Literal(Number(2))>>),
              Block(<<Expression(Assign(Ident("a"), Literal(Number(3))))>>) >>
    /\ frames[1].idx = 3
    /\ DOMAIN envs = {1}
    /\ envs[1].values["a"] = Number(3)

\* C3: a block gets one new scope, whose enclosing scope is the scope of the
\* Interpreter that executes the block; when the block ends, with or without
\* an error, that Interpreter is on the scope it was on and the scope of the
\* block is gone.
BlockScopeLifetime ==
    /\ [][/\ Len(frames') > Len(frames)
               => /\ Len(frames') = depth + 1
                  /\ \E c \in (DOMAIN envs') \ (DOMAIN envs) :
                       /\ DOMAIN envs' = (DOMAIN envs) \cup {c}
                       /\ envs'[c].encolosing = cur.environment
                       /\ frames'[depth + 1].environment = c
                  /\ \A i \in DOMAIN envs : envs'[i] = envs[i]
                  /\ \A j \in 1..depth : frames'[j].environment = frames[j].environment
          /\ Len(frames') < Len(frames)
               => /\ Len(frames') = depth - 1
                  /\ \A j \in 1..(depth - 1) : frames'[j].environment = frames[j].environment
                  /\ DOMAIN envs' = (DOMAIN envs) \ {cur.environment}
                  /\ \A i \in DOMAIN envs' : envs'[i] = envs[i]
                  /\ \A k \in 1..Len(ScopeChain(envs', frames'[depth - 1].environment)) :
                       ScopeChain(envs', frames'[depth - 1].environment)[k] # cur.environment
          /\ Len(frames') = Len(frames)
               => /\ DOMAIN envs' = DOMAIN envs
                  /\ \A j \in 1..depth : frames'[j].environment = frames[j].environment]_vars
    /\ [](\A j \in 2..depth : envs[frames[j].environment].encolosing = frames[j - 1].environment)
    /\ [](result.tag # "Running" => depth = 1 /\ DOMAIN envs = {frames[1].environment})

\* a block has ended with the error of one of its statements
BlockErrorExitWitness ==
    /\ call.op = "execute_block"
    /\ ret.tag = "Err"
    /\ depth = 1
    /\ DOMAIN envs = {1}

\* the first fuel scopes from scope self outward, up to a scope with no
\* enclosing scope or one that is not in the heap
RECURSIVE ScopesWithin(_, _, _)
ScopesWithin(heap, self, fuel) ==
    IF self = NoEnv \/ self \notin DOMAIN heap \/ fuel = 0 THEN <<>>
    ELSE <<self>> \o ScopesWithin(heap, heap[self].encolosing, fuel - 1)

\* C34: at every point of an execution the scope chain of the Interpreter
\* of every block being executed, the current one included, visits no
\* scope twice, stays in the heap and ends at the scope interpret was
\* called on, which is the only scope with no enclosing scope; the chain of
\* the k-th Interpreter has k scopes, so that of the current scope has one
\* more than the number of blocks being executed, which bounds every get
\* and assign traversal.
ScopeChainIsBlockNesting ==
    /\ \A i \in DOMAIN envs :
          envs[i].encolosing = NoEnv <=> i = frames[1].environment
    /\ \A k \in 1..depth :
          LET chain == ScopesWithin(envs, frames[k].environment,
                                    Cardinality(DOMAIN envs) + 1)
          IN  /\ Len(chain) = k
              /\ \A x, y \in 1..Len(chain) : chain[x] = chain[y] => x = y
              /\ chain[Len(chain)] = frames[1].environment
              /\ envs[chain[Len(chain)]].encolosing = NoEnv
              /\ \A n \in Names :
                    Binder(envs, frames[k].environment, n) # NoEnv
                        => \E x \in 1..k : chain[x] = Binder(envs, frames[k].environment, n)

\* a block in a block is being executed: the chain of its scope has three scopes
NestedBlockWitness ==
    /\ depth = 3
    /\ result.tag = "Running"
    /\ Len(ScopesWithin(envs, cur.environment, Cardinality(DOMAIN envs) + 1)) = 3
    /\ envs[envs[cur.environment].encolosing].encolosing = frames[1].environment

\* the names a statement assigns to, the statements of a block included
RECURSIVE StmtAssignedNames(_)
StmtAssignedNames(s) ==
    IF s.node = "Block"
    THEN UNION {StmtAssignedNames(s.statements[k]) : k \in 1..Len(s.statements)}
    ELSE UNION {AssignedNames(e) : e \in StmtExprs(s)}

\* the first statement of the program declares n with the value of a
\* literal, the second is a block with a declaration of n among its
\* statements, and that block has just ended without an error
ShadowingBlockEnded(n) ==
    /\ depth = 1
    /\ call.op = "execute_block"
    /\ ret.tag # "Err"
    /\ cur.idx = 3
    /\ cur.statements[1].node = "Var"
    /\ cur.statements[1].name.lexeme = n
    /\ cur.statements[1].initializer # <<>>
    /\ cur.statements[1].initializer[1].node = "Literal"
    /\ cur.statements[2].node = "Block"
    /\ \E k \in 1..Len(cur.statements[2].statements) :
          /\ cur.statements[2].statements[k].node = "Var"
          /\ cur.statements[2].statements[k].name.lexeme = n

\* the block of ShadowingBlockEnded assigns to n in the declaration of n or
\* in a statement before it
AssignsBeforeDeclaration(n) ==
    LET inner == cur.statements[2].statements
        decl == CHOOSE k \in 1..Len(inner) :
                    /\ inner[k].node = "Var" /\ inner[k].name.lexeme = n
                    /\ \A j \in 1..(k - 1) :
                          ~(inner[j].node = "Var" /\ inner[j].name.lexeme = n)
    IN  \E j \in 1..decl : n \in StmtAssignedNames(inner[j])

\* a step in a block, on a statement that is no block, while the scope of
\* the block binds n and the chain of the enclosing scope binds n as well
ShadowedStep(n) ==
    /\ AtSimpleStmt
    /\ depth > 1
    /\ call' # call \/ ret' # ret \/ frames' # frames
    /\ contains_key(envs[cur.environment].values, n)
    /\ Binder(envs, envs[cur.environment].encolosing, n) # NoEnv

\* C36 as claimed: after a block that declares a name of the global scope
\* the global binding holds the value it had before the block.
ShadowedOuterSameAsBeforeBlock ==
    \A n \in Names :
        ShadowingBlockEnded(n)
            => envs[1].values[n] = cur.statements[1].initializer[1].value

\* C36, amended: a declaration in a block of a name that an outer scope
\* binds adds a binding to the scope of the block and leaves every other
\* scope as it is; from then on a read of the name in the block yields the
\* inner binding and an assignment to the name writes the inner binding,
\* and no step in the block changes a binding of the name in another
\* scope; after the block the outer binding holds the value it had before
\* the block unless the block assigned to the name before the declaration.
ShadowedOuterSameAsAtDeclaration ==
    /\ [][\A n \in Names :
            /\ (/\ AtStmt("Var") /\ depth > 1 /\ call'.op = "visit_stmt_var"
                /\ ret'.tag = "Ok"
                /\ stmt.name.lexeme = n
                /\ n \notin StmtAssignedNames(stmt)
                /\ Binder(envs, envs[cur.environment].encolosing, n) # NoEnv)
                   => /\ envs'[cur.environment].values[n] = call'.value
                      /\ Binder(envs', cur.environment, n) = cur.environment
                      /\ \A i \in (DOMAIN envs) \ {cur.environment} : envs'[i] = envs[i]
            /\ ShadowedStep(n)
                   => /\ \A i \in (DOMAIN envs) \ {cur.environment} :
                            envs'[i].values[n] = envs[i].values[n]
                      /\ stmt = PrintStmt(Variable(Ident(n)))
                            => output' = Append(output,
                                                fmt_debug(envs[cur.environment].values[n]))
                      /\ (/\ stmt.node = "Expression"
                          /\ stmt.expression.node = "Assign"
                          /\ stmt.expression.name.lexeme = n
                          /\ stmt.expression.value.node = "Literal")
                            => envs'[cur.environment].values[n] = stmt.expression.value.value]_vars
    /\ [](\A n \in Names :
            (ShadowingBlockEnded(n) /\ ~AssignsBeforeDeclaration(n))
                => envs[1].values[n] = cur.statements[1].initializer[1].value)

\* var a = 2; { var a; a = 3; print a; } print a; has printed 3, then 2
ShadowedPrintWitness ==
    /\ result = Ok(Unit)
    /\ Len(frames[1].statements) = 3
    /\ frames[1].statements[2].node = "Block"
    /\ output = <<fmt_debug(Number(3)), fmt_debug(Number(2))>>
    /\ envs[1].values["a"] = Number(2)

\* C38: no borrow of a scope cell fails during the execution of a program:
\* no statement ends in the panic of a borrow or borrow_mut on a cell that
\* is already borrowed.
BorrowCheckNeverFails == ret.tag # "Panic"

\* var a = 2; { a = a; } has ended: the block has read and written the
\* global a through the scope of the block
AssignReadThroughBlockWitness ==
    /\ result = Ok(Unit)
    /\ frames[1].statements =
           << Var(Ident("a"), <<Literal(Number(2))>>),
              Block(<< Expression(Assign(Ident("a"), Variable(Ident("a")))) >>) >>
    /\ envs[1].values["a"] = Number(2)

\* C8: an assignment to a bound name evaluates the expression, stores the
\* value in the binding and evaluates to that value, which a read of the
\* name then yields; after var a = 2; a = 3; a read of a yields Number(3.0).
AssignStoresAndReturnsValue ==
    /\ [][(AtStmt("Expression") /\ call'.op = "visit_stmt_expression"
             /\ stmt.expression.node = "Assign"
             /\ Binder(envs, cur.environment, stmt.expression.name.lexeme) # NoEnv
             /\ evalute(envs, cur.environment, stmt.expression.value).res.tag = "Ok")
            => LET n == stmt.expression.name.lexeme
                   b == Binder(envs, cur.environment, n)
                   v == evalute(envs, cur.environment, stmt.expression.value).res.value
               IN  /\ ret' = Ok(Unit)
                   /\ call'.value = v
                   /\ envs'[b].values[n] = v
                   /\ Environment_get(envs', cur.environment, Ident(n)).res = Ok(v)]_vars
    /\ []((/\ frames[1].statements =
                  << Var(Ident("a"), <<Literal(Number(2))>>),
                     Expression(Assign(Ident("a"), Literal(Number(3)))),
                     PrintStmt(Variable(Ident("a"))) >>
           /\ frames[1].idx = 4)
             => output = <<fmt_debug(Number(3))>>)

\* var a = 2; a = 3; print a; has printed Number(3.0)
AssignThenReadWitness ==
    /\ frames[1].statements =
           << Var(Ident("a"), <<Literal(Number(2))>>),
              Expression(Assign(Ident("a"), Literal(Number(3)))),
              PrintStmt(Variable(Ident("a"))) >>
    /\ frames[1].idx = 4
    /\ output = <<"Literal { value: Some(Number(3.0)) }">>

\* C9: a var declaration without initializer succeeds and binds the name to
\* nil in the scope it is executed in; a read of the name then yields nil,
\* where a read of a name that no scope binds is an error.
VarWithoutInitializerIsNil ==
    /\ [][(AtStmt("Var") /\ call'.op = "visit_stmt_var" /\ stmt.initializer = <<>>)
            => /\ ret' = Ok(Unit)
               /\ frames' = advance
               /\ envs'[cur.environment].values[stmt.name.lexeme] = None
               /\ Environment_get(envs', cur.environment, stmt.name).res = Ok(None)]_vars
    /\ [](\A n \in Names :
            Environment_get(envs, cur.environment, Ident(n)).res.tag = "Err"
                <=> Binder(envs, cur.environment, n) = NoEnv)
    /\ []((/\ Len(frames[1].statements) >= 2
           /\ frames[1].statements[1] = Var(Ident("a"), <<>>)
           /\ frames[1].statements[2] = PrintStmt(Variable(Ident("a")))
           /\ frames[1].idx >= 3)
             => output[1] = fmt_debug(None))

\* var a; print a; has printed nil and has not failed
VarNilReadWitness ==
    /\ Len(frames[1].statements) = 2
    /\ frames[1].statements[1] = Var(Ident("a"), <<>>)
    /\ frames[1].statements[2] = PrintStmt(Variable(Ident("a")))
    /\ result = Ok(Unit)
    /\ envs[1].values["a"] = None
    /\ output = <<"Literal { value: None }">>

(***************************************************************************)
(* Properties of the Scanner (SpecScan)                                    *)
(***************************************************************************)
\* C10: scan_tokens never aborts: on no source does a step of the scan
\* panic.
ScanNeverAborts == scan_pc # "panic"

\* the number of '\n' among the characters of chars
RECURSIVE newlines(_)
newlines(chars) ==
    IF chars = <<>> THEN 0
    ELSE (IF Head(chars) = "\n" THEN 1 ELSE 0) + newlines(Tail(chars))

\* every character of chars is encoded in one byte
OneByte(chars) == \A i \in 1..Len(chars) : len_utf8(chars[i]) = 1

\* C11: the step that ends a scanning pass appends one token, the Eof
\* token with an empty lexeme, no literal and the final line, which is 1 plus
\* the number of newlines of the source; no other step appends an Eof token,
\* and after the pass the Eof token is the last one.
ScanAppendsOneEof ==
    /\ [][(scan_pc = "scan" /\ scan_pc' = "done") =>
            /\ tokens' = Append(tokens, Token("Eof", "", None, line'))
            /\ line' = 1 + newlines(source)]_vars
    /\ [][scan_pc' # "done" =>
            \A i \in (Len(tokens) + 1)..Len(tokens') : tokens'[i].token_type # "Eof"]_vars
    /\ [](scan_pc = "done" =>
            /\ tokens # <<>>
            /\ tokens[Len(tokens)].token_type = "Eof"
            /\ \A i \in 1..(Len(tokens) - 1) : tokens[i].token_type # "Eof")

\* a pass over a source with a newline after its last token has ended
EofAfterNewlineWitness ==
    /\ scan_pc = "done"
    /\ Len(tokens) = 2
    /\ tokens[1].line = 1
    /\ tokens[2] = Token("Eof", "", None, 2)

\* C12: a step that scans an opening quote with no closing quote in the
\* rest of a source of one-byte characters appends one report, with the line
\* counter after the newlines of the rest were counted, appends no token,
\* and leaves the scan at the end of the source and running, where the only
\* step left appends the Eof token.
UnterminatedStringReported ==
    [][(/\ scan_pc = "scan"
        /\ OneByte(source)
        /\ chars_nth(source, current) = "\""
        /\ \A i \in (current + 2)..Len(source) : source[i] # "\"") =>
            /\ tokens' = tokens
            /\ line' = line + newlines(SubSeq(source, current + 2, Len(source)))
            /\ reports' = Append(reports, [line |-> line', message |-> "Unterminated string."])
            /\ scan_pc' = "scan"
            /\ current' = str_len(source)]_vars

\* an unterminated string with a newline inside was reported and the pass ended
UnterminatedStringWitness ==
    /\ scan_pc = "done"
    /\ reports = <<[line |-> 2, message |-> "Unterminated string."]>>
    /\ tokens = <<Token("Eof", "", None, 2)>>

\* a step of the scan that returns: scan_single_token has scanned the
\* characters from current up to current'
ScannedStep == scan_pc = "scan" /\ scan_pc' = "scan" /\ current' # current

\* C29: the scan goes through the source from left to right; a step appends
\* at most one token, after the tokens it found, whose lexeme is the text
\* of the characters the step consumed and whose line is 1 plus the number
\* of newlines up to its last character; a step over a space, a tab, a
\* carriage return or a newline consumes that character and appends
\* nothing; 1 + 2 gives Number(1), Plus, Number(2), Eof, all on line 1.
LexemeIsScannedText ==
    [][ScannedStep
        => \/ tokens' = tokens
           \/ /\ Len(tokens') = Len(tokens) + 1
              /\ SubSeq(tokens', 1, Len(tokens)) = tokens
              /\ tokens'[Len(tokens')].token_type # "Eof"
              /\ tokens'[Len(tokens')].lexeme =
                     to_string(SubSeq(source, current + 1, current'))
              /\ tokens'[Len(tokens')].line =
                     1 + newlines(SubSeq(source, 1, current'))]_vars
ScanLeftToRight == [][current' >= current]_vars
WhitespaceGivesNoToken ==
    [][(ScannedStep /\ chars_nth(source, current) \in {" ", "\t", "\r", "\n"})
        => /\ tokens' = tokens
           /\ reports' = reports
           /\ current' = current + 1]_vars
AdditionTokens ==
    [](scan_pc = "done" /\ source = <<"1", " ", "+", " ", "2">>
        => tokens = << Token("Number", "1", Number(1), 1),
                       Token("Plus", "+", None, 1),
                       Token("Number", "2", Number(2), 1),
                       Token("Eof", "", None, 1) >>)
ScanGivesSourceTokens ==
    /\ ScanLeftToRight
    /\ WhitespaceGivesNoToken
    /\ AdditionTokens
    /\ LexemeIsScannedText

\* C29 on the sources of one-byte characters
OneByteLexemeIsScannedText ==
    [][(ScannedStep /\ OneByte(source))
        => \/ tokens' = tokens
           \/ /\ Len(tokens') = Len(tokens) + 1
              /\ SubSeq(tokens', 1, Len(tokens)) = tokens
              /\ tokens'[Len(tokens')].lexeme =
                     to_string(SubSeq(source, current + 1, current'))
              /\ tokens'[Len(tokens')].line =
                     1 + newlines(SubSeq(source, 1, current'))]_vars

\* the end of the line of the character at index i: the index of the next
\* newline, or the length of the source
RECURSIVE LineEnd(_)
LineEnd(i) ==
    IF i >= Len(source) \/ source[i + 1] = "\n" THEN i ELSE LineEnd(i + 1)

\* C30: on a source of one-byte characters the step at // appends no token,
\* reports nothing, leaves the line counter and stops before the next
\* newline or at the end of the source, so that the newline is scanned next
\* and counts the line; the tokens before and after the comment are those
\* of the source without it: 1//a, newline, 1 gives Number(1) on line 1,
\* Number(1) on line 2 and Eof, a source that is one comment gives Eof only.
CommentGivesNoToken ==
    /\ [][(/\ scan_pc = "scan"
           /\ OneByte(source)
           /\ chars_nth(source, current) = "/"
           /\ chars_nth(source, current + 1) = "/")
            => /\ scan_pc' = "scan"
               /\ tokens' = tokens
               /\ reports' = reports
               /\ line' = line
               /\ current' = LineEnd(current + 2)]_vars
    /\ [](scan_pc = "done" /\ source = <<"1", "/", "/", "a", "\n", "1">>
            => tokens = << Token("Number", "1", Number(1), 1),
                           Token("Number", "1", Number(1), 2),
                           Token("Eof", "", None, 2) >>)
    /\ []((/\ scan_pc = "done"
           /\ OneByte(source)
           /\ Len(source) >= 2
           /\ source[1] = "/"
           /\ source[2] = "/"
           /\ newlines(source) = 0)
            => tokens = <<Token("Eof", "", None, 1)>>)

\* the pass over 1//a, newline, 1 has ended with the second token on line 2
CommentThenNextLineWitness ==
    /\ scan_pc = "done"
    /\ source = <<"1", "/", "/", "a", "\n", "1">>
    /\ Len(tokens) = 3
    /\ tokens[2] = Token("Number", "1", Number(1), 2)

\* the one-character and the two-character token of '!', '=', '<' and '>'
OperatorTokens ==
    [c \in {"!", "=", "<", ">"} |->
        CASE c = "!" -> [one |-> "Bang", two |-> "BangEqual"]
          [] c = "=" -> [one |-> "Equal", two |-> "EqualEqual"]
          [] c = "<" -> [one |-> "Less", two |-> "LessEqual"]
          [] c = ">" -> [one |-> "Greater", two |-> "GreaterEqual"]]

\* C31: the step at '!', '=', '<' or '>' appends one token: the
\* two-character token when the next character is '=', with current moved
\* over both characters, and the one-character token otherwise, with
\* current moved over one; on a source of one-byte characters the step
\* returns and the lexeme is the one or two characters; === gives
\* EqualEqual, Equal, Eof.
OperatorTakesOneOrTwo ==
    /\ [][(/\ scan_pc = "scan"
           /\ chars_nth(source, current) \in DOMAIN OperatorTokens)
            => /\ OneByte(source) => scan_pc' = "scan"
               /\ scan_pc' = "scan"
                   => LET c == chars_nth(source, current)
                          two == chars_nth(source, current + 1) = "="
                          token == tokens'[Len(tokens')]
                      IN  /\ Len(tokens') = Len(tokens) + 1
                          /\ SubSeq(tokens', 1, Len(tokens)) = tokens
                          /\ token.literal = None
                          /\ current' = IF two THEN current + 2 ELSE current + 1
                          /\ token.token_type =
                                 IF two THEN OperatorTokens[c].two ELSE OperatorTokens[c].one
                          /\ OneByte(source)
                                 => token.lexeme = IF two THEN c \o "=" ELSE c]_vars
    /\ [](scan_pc = "done" /\ source = <<"=", "=", "=">>
            => tokens = << Token("EqualEqual", "==", None, 1),
                           Token("Equal", "=", None, 1),
                           Token("Eof", "", None, 1) >>)

\* the pass over === has ended with EqualEqual, Equal, Eof
TripleEqualWitness ==
    /\ scan_pc = "done"
    /\ source = <<"=", "=", "=">>
    /\ Len(tokens) = 3
    /\ tokens[1].token_type = "EqualEqual"
    /\ tokens[2].token_type = "Equal"

\* the index after the digits that start at index i
RECURSIVE DigitsEnd(_)
DigitsEnd(i) == IF is_ascii_digit(chars_nth(source, i)) THEN DigitsEnd(i + 1) ELSE i

\* the index after the number that starts at index i: its digits, and a '.'
\* with the digits after it when at least one digit follows the '.'
NumberEnd(i) ==
    LET d == DigitsEnd(i)
    IN  IF chars_nth(source, d) = "." /\ is_ascii_digit(chars_nth(source, d + 1))
        THEN DigitsEnd(d + 1)
        ELSE d

\* C32: on a source of one-byte characters the step at a digit appends one
\* Number token for the leading digits and, only when a digit follows it,
\* the '.' and the digits after it; the step at a '.' appends a Dot token
\* for that character; 1. gives Number(1), Dot, Eof and 1.5 gives
\* Number(1.5), Eof.
NumberTakesDotBeforeDigit ==
    /\ [][(/\ scan_pc = "scan"
           /\ OneByte(source)
           /\ is_ascii_digit(chars_nth(source, current)))
            => /\ scan_pc' = "scan"
               /\ current' = NumberEnd(current)
               /\ tokens' = Append(tokens,
                       Token("Number",
                             to_string(SubSeq(source, current + 1, NumberEnd(current))),
                             parse_f64(SubSeq(source, current + 1, NumberEnd(current))),
                             line))]_vars
    /\ [][(/\ scan_pc = "scan"
           /\ OneByte(source)
           /\ chars_nth(source, current) = ".")
            => /\ scan_pc' = "scan"
               /\ current' = current + 1
               /\ tokens' = Append(tokens, Token("Dot", ".", None, line))]_vars
    /\ [](scan_pc = "done" /\ source = <<"1", ".">>
            => tokens = << Token("Number", "1", Number(1), 1),
                           Token("Dot", ".", None, 1),
                           Token("Eof", "", None, 1) >>)
    /\ [](scan_pc = "done" /\ source = <<"1", ".", "5">>
            => tokens = << Token("Number", "1.5", [Number(1) EXCEPT !.str = "5"], 1),
                           Token("Eof", "", None, 1) >>)

\* the pass over 1. has ended with a Number token and a Dot token
NumberThenDotWitness ==
    /\ scan_pc = "done"
    /\ source = <<"1", ".">>
    /\ Len(tokens) = 3
    /\ tokens[1] = Token("Number", "1", Number(1), 1)
    /\ tokens[2].token_type = "Dot"

\* C33: at every point of a scan a token of the list has a literal value
\* exactly when its kind is String or Number: identifiers, keywords,
\* operators, punctuation and Eof have none.
LiteralOnlyOnStringAndNumber ==
    \A i \in 1..Len(tokens) :
        tokens[i].literal # None <=> tokens[i].token_type \in {"String", "Number"}

\* the pass over true has ended with the keyword token, which has no literal
KeywordWithoutLiteralWitness ==
    /\ scan_pc = "done"
    /\ source = <<"t", "r", "u", "e">>
    /\ tokens = <<Token("True", "true", None, 1), Token("Eof", "", None, 1)>>

(***************************************************************************)
(* Properties of the Parser (SpecParse)                                    *)
(***************************************************************************)
\* the type of the i-th token, "" past the end
TypeAt(i) == IF i \in 1..Len(tokens) THEN tokens[i].token_type ELSE ""

\* the parser stopped with the ParseError of message arg at token i, its cursor on it
ErrorAt(i, arg) ==
    /\ parse_pc' = "done"
    /\ ast' = Err(ParseError(Error(tokens[i].line, tokens[i].lexeme, arg)))
    /\ parser_current' = i - 1

\* a turn of the loop of parse starts at token i
StatementAt(i) ==
    /\ parse_pc \in {"new", "parse"}
    /\ parser_current = i - 1
    /\ call'.op = "statement"

\* the first token of the statement at the cursor
First == parser_current + 1

\* C13: parse never aborts: on every token sequence that ends with Eof
\* each turn of its loop returns, with a statement or with a ParseError.
ParseNeverAborts == ~(call.op = "statement" /\ parse_pc = "panic")

\* C14: a statement that lacks an expected token stops the parse with a
\* ParseError of the line and lexeme of the token found instead, the cursor
\* left on that token: the ';' of an expression, print or var statement, the
\* name of a var statement, the ')' of a grouping, the '}' of a block.
ExpectedSemicolon ==
    [][/\ (StatementAt(First) /\ TypeAt(First) = "Number"
             /\ TypeAt(First + 1) \in {"Number", "LeftParen", "RightParen", "Eof"})
            => ErrorAt(First + 1, "Expect ';' after expression.")
       /\ (StatementAt(First) /\ TypeAt(First) = "Print" /\ TypeAt(First + 1) = "True"
             /\ TypeAt(First + 2) \in {"Print", "True", "Nil", "Eof"})
            => ErrorAt(First + 2, "Expect ';' after value.")
       /\ (StatementAt(First) /\ TypeAt(First) = "Var" /\ TypeAt(First + 1) = "Identifier"
             /\ TypeAt(First + 2) \in {"Var", "Identifier", "Eof"})
            => ErrorAt(First + 2, "Expected ';' after variable declaration")]_vars
ExpectedName ==
    [][(StatementAt(First) /\ TypeAt(First) = "Var"
          /\ TypeAt(First + 1) \in {"Var", "Equal", "Semicolon", "Eof"})
         => ErrorAt(First + 1, "Expected a variable name")]_vars
ExpectedRightParen ==
    [][(StatementAt(First) /\ TypeAt(First) = "LeftParen" /\ TypeAt(First + 1) = "Number"
          /\ TypeAt(First + 2) \in {"Number", "Semicolon", "LeftParen", "Eof"})
         => ErrorAt(First + 2, "Expect ')' after expression.")]_vars
ExpectedRightBrace ==
    [][(StatementAt(First) /\ TypeAt(First) = "LeftBrace" /\ TypeAt(First + 1) = "Eof")
         => ErrorAt(First + 1, "Expect '}' after block.")]_vars
ConsumeFailureIsParseError ==
    ExpectedSemicolon /\ ExpectedName /\ ExpectedRightParen /\ ExpectedRightBrace

\* the precedence level of the node at the root of an expression
Level(e) ==
    IF e.node = "Assign" THEN 0
    ELSE IF e.node = "Binary" THEN
        (IF e.operator.token_type \in {"BangEqual", "EqualEqual"} THEN 1
         ELSE IF e.operator.token_type \in {"Greater", "GreaterEqual", "Less", "LessEqual"}
         THEN 2
         ELSE IF e.operator.token_type \in {"Minus", "Plus"} THEN 3
         ELSE 4)
    ELSE IF e.node = "Unary" THEN 5
    ELSE 6

\* a token of which the tree keeps the type only, or the type and the literal
Kept(token_type, literal) == Token(token_type, "", literal, 0)

\* the tokens an expression was built from, in the order of the source
RECURSIVE Yield(_)
Yield(e) ==
    IF e.node = "Literal" THEN
        <<Kept(CASE e.value.variant = "Number" -> "Number"
                 [] e.value.variant = "String" -> "String"
                 [] e.value.variant = "Boolean" -> (IF e.value.bool THEN "True" ELSE "False")
                 [] e.value.variant = "NaN" -> "NaN"
                 [] OTHER -> "Nil", e.value)>>
    ELSE IF e.node = "Variable" THEN <<e.name>>
    ELSE IF e.node = "Grouping"
    THEN <<Kept("LeftParen", None)>> \o Yield(e.expression) \o <<Kept("RightParen", None)>>
    ELSE IF e.node = "Unary" THEN <<e.operator>> \o Yield(e.right)
    ELSE IF e.node = "Binary" THEN Yield(e.left) \o <<e.operator>> \o Yield(e.right)
    ELSE <<e.name, Kept("Equal", None)>> \o Yield(e.value)

\* the expression was built from the first tokens up to the cursor c, and
\* the token at the cursor is no operator that continues it
BuiltFrom(e, c) ==
    /\ Len(Yield(e)) = c
    /\ \A i \in 1..c :
         LET y == Yield(e)[i]
         IN  /\ y.token_type = tokens[i].token_type
             /\ y.line # 0 => y = tokens[i]
             /\ y.token_type \in {"Number", "String"} => y.literal = tokens[i].literal
    /\ TypeAt(c + 1) \notin {"BangEqual", "EqualEqual", "Greater", "GreaterEqual", "Less",
                             "LessEqual", "Minus", "Plus", "Slash", "Star", "Equal"}

\* the expressions of a tree that are operands of an operator
RECURSIVE Operands(_)
Operands(e) ==
    IF e.node = "Grouping" THEN Operands(e.expression)
    ELSE IF e.node = "Unary" THEN {<<e, "right", e.right>>} \cup Operands(e.right)
    ELSE IF e.node = "Binary"
    THEN {<<e, "left", e.left>>, <<e, "right", e.right>>}
             \cup Operands(e.left) \cup Operands(e.right)
    ELSE IF e.node = "Assign" THEN {<<e, "value", e.value>>} \cup Operands(e.value)
    ELSE {}

\* a parse of expression() returned Ok
ExpressionParsed == call'.op = "expression" /\ ast'.tag = "Ok"

\* C17: in every tree the parser returns for an expression no operand of
\* an operator has an operator of lower precedence at its root (equality,
\* comparison, term, factor, unary from lowest to highest), and the tree is
\* built from the tokens in their order.
PrecedenceRespected ==
    [][ExpressionParsed =>
        /\ BuiltFrom(ast'.value, parser_current')
        /\ \A o \in Operands(ast'.value) : Level(o[3]) >= Level(o[1])]_vars

\* the tokens of 1 + 1 * 1 were parsed
PrecedenceWitness ==
    /\ call.op = "expression"
    /\ ast = Ok(Binary(Literal(Number(1)), Token("Plus", "+", None, 2),
                       Binary(Literal(Number(1)), Token("Star", "*", None, 4),
                              Literal(Number(1)))))

\* C18: binary operators of one precedence level associate to the left:
\* in every tree the parser returns the right operand of a Binary has no
\* operator of the same level at its root, so that a chain of one level is
\* Binary(Binary(a, op1, b), op2, c).
LeftAssociative ==
    [][ExpressionParsed =>
        /\ BuiltFrom(ast'.value, parser_current')
        /\ \A o \in Operands(ast'.value) :
             (o[1].node = "Binary" /\ o[2] = "right") => Level(o[3]) > Level(o[1])]_vars

\* the tokens of 1 - 1 + 1 were parsed
LeftAssociativeWitness ==
    /\ call.op = "expression"
    /\ ast = Ok(Binary(Binary(Literal(Number(1)), Token("Minus", "-", None, 2),
                              Literal(Number(1))),
                       Token("Plus", "+", None, 4), Literal(Number(1))))

\* the token types of expressions that are no Variable
InvalidTargets ==
    { <<"Number">>, <<"Minus", "Identifier">>, <<"Identifier", "Minus", "Identifier">>,
      <<"LeftParen", "Identifier", "RightParen">> }

\* the types of the first n tokens
TypesUpTo(n) == [i \in 1..n |-> TypeAt(i)]

\* C19: assignment associates to the right and takes a variable as its
\* target only: in every tree returned the target of an Assign is an
\* Identifier token and an Assign is the operand of no operator but an Assign
\* (a = a = 1 is Assign(a, Assign(a, 1))); a literal, unary, binary or
\* grouping left of an '=' that is followed by a value gives the ParseError
\* Invalid assignment target of the '=' token.
AssignmentRightAssociative ==
    /\ [][ExpressionParsed =>
            /\ BuiltFrom(ast'.value, parser_current')
            /\ \A o \in Operands(ast'.value) :
                 /\ o[1].node = "Assign" => o[1].name.token_type = "Identifier"
                 /\ o[3].node = "Assign" => o[1].node = "Assign"]_vars
    /\ [][\A k \in 2..4 :
            (/\ call'.op = "expression"
             /\ TypesUpTo(k - 1) \in InvalidTargets
             /\ TypeAt(k) = "Equal"
             /\ TypeAt(k + 1) \in {"Identifier", "Number"}
             /\ TypeAt(k + 2) \in {"Identifier", "Number", "LeftParen", "RightParen", "Eof"})
            => /\ parse_pc' = "done"
               /\ ast' = Err(ParseError(Error(tokens[k].line, "=",
                                              "Invalid assignment target")))]_vars

\* the tokens of a = a = 1 were parsed
AssignmentWitness ==
    /\ call.op = "expression"
    /\ ast = Ok(Assign(Token("Identifier", "a", None, 1),
                       Assign(Token("Identifier", "a", None, 3), Literal(Number(1)))))

\* the tokens a statement was built from, in the order of the source
RECURSIVE StmtYield(_)
StmtYield(s) ==
    IF s.node = "Expression" THEN Yield(s.expression) \o <<Kept("Semicolon", None)>>
    ELSE IF s.node = "Print"
    THEN <<Kept("Print", None)>> \o Yield(s.expression) \o <<Kept("Semicolon", None)>>
    ELSE IF s.node = "Var"
    THEN <<Kept("Var", None), s.name>>
             \o (IF s.initializer = <<>> THEN <<>>
                 ELSE <<Kept("Equal", None)>> \o Yield(s.initializer[1]))
             \o <<Kept("Semicolon", None)>>
    ELSE LET inner[i \in 0..Len(s.statements)] ==
                 IF i = 0 THEN <<>> ELSE inner[i - 1] \o StmtYield(s.statements[i])
         IN  <<Kept("LeftBrace", None)>> \o inner[Len(s.statements)]
                 \o <<Kept("RightBrace", None)>>

\* the block opened before token i at depth d is not closed before the Eof token
RECURSIVE Unclosed(_, _)
Unclosed(i, d) ==
    IF TypeAt(i) \in {"Eof", ""} THEN TRUE
    ELSE IF TypeAt(i) = "LeftBrace" THEN Unclosed(i + 1, d + 1)
    ELSE IF TypeAt(i) = "RightBrace" THEN (IF d = 1 THEN FALSE ELSE Unclosed(i + 1, d - 1))
    ELSE Unclosed(i + 1, d)

\* C20: a statement that starts with '{' and is parsed is a Block of the
\* statements between the braces in the order of the source, the empty Block
\* for {}; when the Eof token comes before the matching '}' the parse
\* returns a ParseError and no Block.  (A statement inside the block that
\* aborts the parse is the case of C13.)
BlockCollectsInOrder ==
    [][(StatementAt(First) /\ TypeAt(First) = "LeftBrace" /\ parse_pc' # "panic") =>
        /\ parse_pc' = "parse" =>
             LET block == parse_statements'[Len(parse_statements')]
                 yield == StmtYield(block)
             IN  /\ parse_statements' = Append(parse_statements, block)
                 /\ block.node = "Block"
                 /\ Len(yield) = parser_current' - parser_current
                 /\ \A i \in 1..Len(yield) :
                      /\ yield[i].token_type = tokens[parser_current + i].token_type
                      /\ yield[i].line # 0 => yield[i] = tokens[parser_current + i]
        /\ TypeAt(First + 1) = "RightBrace" =>
             parse_statements' = Append(parse_statements, Block(<<>>))
        /\ Unclosed(First + 1, 1) =>
             /\ parse_pc' = "done"
             /\ ast'.tag = "Err"
             /\ ast'.err.kind = "ParseError"
             /\ parse_statements' = parse_statements]_vars

\* the tokens of { a; a; } were parsed
BlockWitness ==
    /\ call.op = "statement"
    /\ parse_statements =
           <<Block(<<Expression(Variable(Token("Identifier", "a", None, 2))),
                     Expression(Variable(Token("Identifier", "a", None, 4)))>>)>>

\* the tokens the first n statements of stmts were built from
RECURSIVE StmtsYield(_, _)
StmtsYield(stmts, n) ==
    IF n = 0 THEN <<>> ELSE StmtsYield(stmts, n - 1) \o StmtYield(stmts[n])

\* C39: parse ends on every token sequence that ends with Eof: a turn of
\* its loop either ends the parse or appends one statement and moves the
\* cursor forward over the tokens of that statement, at least one; the
\* cursor is never past the Eof token; when parse returns Ok the cursor is
\* on the Eof token and the statements returned are those of the turns, in
\* their order, built from all the tokens before the Eof token, none for
\* the sequence of the Eof token alone.
ParseConsumesUpToEof ==
    /\ [][(parse_pc \in {"new", "parse"} /\ call'.op = "statement")
            => IF parse_pc' = "parse"
               THEN /\ parser_current' > parser_current
                    /\ Len(parse_statements') = Len(parse_statements) + 1
                    /\ SubSeq(parse_statements', 1, Len(parse_statements)) = parse_statements
                    /\ Len(StmtYield(parse_statements'[Len(parse_statements')]))
                           = parser_current' - parser_current
               ELSE /\ parse_pc' \in {"done", "panic"}
                    /\ parse_statements' = parse_statements
                    /\ parser_current' >= parser_current]_vars
    /\ [](parse_pc # "idle"
            => /\ parser_current < Len(tokens)
               /\ \A i \in 1..parser_current : tokens[i].token_type # "Eof"
               /\ Len(parse_statements) <= parser_current)
    /\ [](call.op = "parse"
            => /\ parse_pc = "done"
               /\ ast = Ok(parse_statements)
               /\ parser_current = Len(tokens) - 1
               /\ LET yield == StmtsYield(parse_statements, Len(parse_statements))
                  IN  /\ Len(yield) = Len(tokens) - 1
                      /\ \A i \in 1..Len(yield) :
                            yield[i].token_type = tokens[i].token_type
               /\ Len(tokens) = 1 => ast = Ok(<<>>))

\* parse has returned the two statements of var a ; a ;
TwoStatementsParsedWitness ==
    /\ call.op = "parse"
    /\ parse_pc = "done"
    /\ parser_current = 5
    /\ Len(tokens) = 6
    /\ ast.tag = "Ok"
    /\ Len(ast.value) = 2
    /\ ast.value[1].node = "Var"
    /\ ast.value[2].node = "Expression"

(***************************************************************************)
(* Properties of run and run_file (SpecRun)                                *)
(***************************************************************************)
\* C15: when the parse of a source fails, run executes no statement of it,
\* the statements parsed before the failure included: after the
\* ParseError the environment is the one run was given, nothing was
\* printed, and run returns without a call of interpret.
ParseErrorRunsNothing ==
    /\ []((run_pc # "idle" /\ ast.tag = "Err") =>
            /\ envs = [i \in {1} |-> Environment_default]
            /\ output = <<>>
            /\ frames = <<>>
            /\ result = NoResult)
    /\ [][(run_pc = "parse" /\ parse_pc = "done" /\ ast.tag = "Err")
            => run_pc' = "returned"]_vars

\* run returned after a parse that failed behind two statements
ParseErrorWitness ==
    /\ run_pc = "returned"
    /\ ast.tag = "Err"
    /\ Len(parse_statements) = 2
    /\ parse_statements[2].node = "Print"

\* C16: run_file ends the process with status 65 exactly when the parse
\* or the interpretation of the run failed.
FailedRunExits65 ==
    run_pc = "exited" => (exit_status = 65 <=> (ast.tag = "Err" \/ result.tag = "Err"))

\* C37: after any number of calls of scan_tokens on the Scanner of a run
\* the token list holds one Eof token, the last one: a call after the first
\* pass leaves the list as the first pass left it.
RescanKeepsOneEof ==
    scan_pc = "done"
        => /\ tokens # <<>>
           /\ tokens[Len(tokens)].token_type = "Eof"
           /\ \A i \in 1..(Len(tokens) - 1) : tokens[i].token_type # "Eof"

(***************************************************************************)
(* Properties of the operators (SpecEval)                                  *)
(***************************************************************************)
\* the value an operand of EvalOperands has in the global scope: the value
\* of the literal, of the variable read or of the literal assigned, Absent
\* for a name that is not bound
OperandValue(e) ==
    IF e.node = "Literal" THEN e.value
    ELSE IF e.node = "Variable" THEN envs[1].values[e.name.lexeme]
    ELSE IF envs[1].values[e.name.lexeme] = Absent THEN Absent
    ELSE e.value.value

\* the next step executes the last statement, an expression statement over
\* a Binary node with an operator of ops
BinaryStep(ops) ==
    /\ AtStmt("Expression")
    /\ call'.op = "visit_stmt_expression"
    /\ stmt.expression.node = "Binary"
    /\ stmt.expression.operator.token_type \in ops
    /\ stmt.expression.left \in EvalOperands
    /\ stmt.expression.right \in EvalOperands

LeftValue == OperandValue(stmt.expression.left)
RightValue == OperandValue(stmt.expression.right)
BothNumbers == LeftValue.variant = "Number" /\ RightValue.variant = "Number"

\* the value expression and the name of a declaration or of an expression
\* statement over an Assign node
ValueOf(s) == IF s.node = "Var" THEN s.initializer[1] ELSE s.expression.value
NameOf(s) == IF s.node = "Var" THEN s.name.lexeme ELSE s.expression.name.lexeme

\* the step failed with a RuntimeException and gave no value
FailedWithRuntimeException ==
    /\ ret'.tag = "Err"
    /\ ret'.err.kind = "RunTimeException"
    /\ call'.value = Unit
    /\ frames' = frames

\* the statement the last step executed
Executed == frames[1].statements[frames[1].idx - 1]
AfterExpression(e) ==
    /\ call.op = "visit_stmt_expression"
    /\ ret = Ok(Unit)
    /\ frames[1].idx > 1
    /\ Executed = Expression(e)

\* C21: a division of two Numbers gives the NaN sentinel exactly when both
\* are zero and a Number otherwise, infinite when only the divisor is zero,
\* and never fails; a division with an operand that is not a Number fails
\* with a RuntimeException.
DivisionSentinelOnlyZeroByZero ==
    [][BinaryStep({"Slash"})
        => IF BothNumbers
           THEN /\ ret' = Ok(Unit)
                /\ call'.value = NaN <=> (LeftValue.num = 0 /\ RightValue.num = 0)
                /\ call'.value # NaN => call'.value.variant = "Number"
                /\ (RightValue.num = 0 /\ is_finite(LeftValue.num) /\ LeftValue.num # 0)
                       => call'.value.num \in {Infinity, -Infinity}
           ELSE FailedWithRuntimeException]_vars

\* 1 / 0 has given the Number infinity
DivisionByZeroWitness ==
    /\ AfterExpression(OneByZero)
    /\ call.value = Number(Infinity)

\* the step failed with a RuntimeException that carries message
FailedWith(message) ==
    /\ FailedWithRuntimeException
    /\ ret'.err.error.message = message

\* the last step executed the expression statement over e and failed
FailedExpression(e) ==
    /\ call.op = "visit_stmt_expression"
    /\ ret.tag = "Err"
    /\ stmt = Expression(e)

\* an operand value that is a Literal value: not nil, not the failed read
\* or assignment of an unbound name
IsLiteralValue(v) == v.variant \in {"String", "Number", "Boolean", "NaN"}

\* C22: + on two Strings gives the String of the left text followed by the
\* right text, on two Numbers the Number that is their sum, and on every
\* other pair of Literal values fails with the RuntimeException
\* "Invalid operands".
PlusConcatenatesOrAdds ==
    [][BinaryStep({"Plus"})
        => IF LeftValue.variant = "String" /\ RightValue.variant = "String"
           THEN /\ ret' = Ok(Unit)
                /\ call'.value = String(LeftValue.str \o RightValue.str)
           ELSE IF BothNumbers
           THEN /\ ret' = Ok(Unit)
                /\ call'.value.variant = "Number"
                /\ (is_finite(LeftValue.num) /\ is_finite(RightValue.num))
                       => call'.value = Number(LeftValue.num + RightValue.num)
           ELSE IF IsLiteralValue(LeftValue) /\ IsLiteralValue(RightValue)
           THEN FailedWith("Invalid operands")
           ELSE FailedWithRuntimeException]_vars

\* "s" + 1 has failed with Invalid operands
PlusMixedWitness ==
    /\ FailedExpression(Binary(Literal(String("s")), Op("Plus", "+"), Literal(Number(1))))
    /\ ret.err = RunTimeException(Error(1, "+", "Invalid operands"))

\* the next step executes == or != on two Literal values
EqualityStep ==
    /\ BinaryStep({"EqualEqual", "BangEqual"})
    /\ IsLiteralValue(LeftValue)
    /\ IsLiteralValue(RightValue)

\* the float of a Number is the IEEE NaN
IsIeeeNaN(v) == v.variant = "Number" /\ v.num = IeeeNaN

\* C23 as claimed: == and != on two Literal values never fail, == is true
\* exactly when the operands are the same variant with the same content,
\* and != is its negation.
EqualityIsStructural ==
    [][EqualityStep
        => /\ ret' = Ok(Unit)
           /\ call'.value = Boolean((LeftValue = RightValue)
                                      <=> stmt.expression.operator.token_type = "EqualEqual")]_vars

\* C23, amended: == and != on two Literal values never fail and never
\* coerce, == is true exactly when the operands are the same variant with
\* the same content and are not a Number that holds the IEEE NaN, which is
\* unequal to every value, itself included; != is the negation of ==.
EqualityIsStructuralButIeeeNaN ==
    [][EqualityStep
        => /\ ret' = Ok(Unit)
           /\ call'.value = Boolean((LeftValue = RightValue /\ ~IsIeeeNaN(LeftValue))
                                      <=> stmt.expression.operator.token_type = "EqualEqual")]_vars

\* 0 == "" has given false
EqualityAcrossVariantsWitness ==
    /\ AfterExpression(Binary(Literal(Number(0)), Op("EqualEqual", "=="), Literal(String(""))))
    /\ call.value = Boolean(FALSE)

\* what -, *, >, >=, < and <= give on two floats that are not the IEEE NaN,
\* finite for - and *
NumberResult(t, l, r) ==
    CASE t = "Minus" -> Number(l - r)
      [] t = "Star" -> Number(l * r)
      [] t = "Greater" -> Boolean(l > r)
      [] t = "GreaterEqual" -> Boolean(l >= r)
      [] t = "Less" -> Boolean(l < r)
      [] t = "LessEqual" -> Boolean(l <= r)

\* C24: -, *, >, >=, < and <= on two Numbers give the difference or the
\* product as a Number, or the comparison as a Boolean; with an operand that
\* is not a Number they fail with a RuntimeException and give no value.
NumberOperatorsNeedNumbers ==
    [][BinaryStep({"Minus", "Star", "Greater", "GreaterEqual", "Less", "LessEqual"})
        => LET t == stmt.expression.operator.token_type
           IN  IF BothNumbers
               THEN /\ ret' = Ok(Unit)
                    /\ call'.value.variant =
                           (IF t \in {"Minus", "Star"} THEN "Number" ELSE "Boolean")
                    /\ (/\ LeftValue.num # IeeeNaN
                        /\ RightValue.num # IeeeNaN
                        /\ t \in {"Minus", "Star"}
                              => is_finite(LeftValue.num) /\ is_finite(RightValue.num))
                           => call'.value = NumberResult(t, LeftValue.num, RightValue.num)
               ELSE FailedWithRuntimeException]_vars

\* true - 1 has failed
BooleanMinusNumberWitness ==
    /\ FailedExpression(Binary(Literal(Boolean(TRUE)), Op("Minus", "-"), Literal(Number(1))))
    /\ ret.err.kind = "RunTimeException"

\* the next step executes the last statement, an expression statement over
\* a Unary node
UnaryStep ==
    /\ AtStmt("Expression")
    /\ call'.op = "visit_stmt_expression"
    /\ stmt.expression.node = "Unary"
    /\ stmt.expression.right \in EvalOperands

\* C25: ! on a Boolean gives the negated Boolean and - on a Number the
\* negated Number; ! on another value, - on another value, and every other
\* operator fail with a RuntimeException.
UnaryNegates ==
    [][UnaryStep
        => LET t == stmt.expression.operator.token_type
               v == OperandValue(stmt.expression.right)
           IN  IF t = "Bang" /\ v.variant = "Boolean"
               THEN ret' = Ok(Unit) /\ call'.value = Boolean(~v.bool)
               ELSE IF t = "Minus" /\ v.variant = "Number"
               THEN /\ ret' = Ok(Unit)
                    /\ call'.value.variant = "Number"
                    /\ v.num # IeeeNaN => call'.value = Number(-v.num)
               ELSE FailedWithRuntimeException]_vars

\* + true has failed: + is no unary operator
UnaryOtherOperatorWitness ==
    /\ FailedExpression(Unary(Op("Plus", "+"), Literal(Boolean(TRUE))))
    /\ ret.err = RunTimeException(Error(1, "+", "Invalid operator for unary expression"))

\* C26: the RuntimeException of an operand of the wrong type, a value that
\* is not a Number under -, *, /, >, >=, <, <= or unary -, a value that is
\* not a Boolean under !, carries the line and the lexeme of the operator.
CoercionErrorNamesOperator ==
    /\ [][(/\ BinaryStep({"Minus", "Star", "Slash", "Greater", "GreaterEqual",
                          "Less", "LessEqual"})
           /\ IsLiteralValue(LeftValue)
           /\ IsLiteralValue(RightValue)
           /\ ~BothNumbers)
            => /\ ret'.tag = "Err"
               /\ ret'.err.error.line = stmt.expression.operator.line
               /\ ret'.err.error.where_ = stmt.expression.operator.lexeme]_vars
    /\ [][(/\ UnaryStep
           /\ IsLiteralValue(OperandValue(stmt.expression.right))
           /\ \/ /\ stmt.expression.operator.token_type = "Minus"
                 /\ OperandValue(stmt.expression.right).variant # "Number"
              \/ /\ stmt.expression.operator.token_type = "Bang"
                 /\ OperandValue(stmt.expression.right).variant # "Boolean")
            => /\ ret'.tag = "Err"
               /\ ret'.err.error.line = stmt.expression.operator.line
               /\ ret'.err.error.where_ = stmt.expression.operator.lexeme]_vars

\* the next step executes a Binary node whose right operand assigns 1 to b,
\* which is bound
RightAssignsStep ==
    /\ BinaryStep({o.token_type : o \in BinaryOps})
    /\ stmt.expression.right = Assign(Ident("b"), Literal(Number(1)))
    /\ envs[1].values["b"] # Absent

\* C27 as claimed: whenever the left operand of a Binary node evaluates
\* without error the right operand is evaluated as well, whatever the
\* operator and whether or not the operation then fails: the assignment in
\* the right operand has taken effect.
RightOperandAlwaysEvaluated ==
    [][(RightAssignsStep /\ LeftValue # Absent)
        => envs'[1].values["b"] = Number(1)]_vars

\* C27, amended: a Binary node evaluates its left operand, then its right
\* operand, then applies the operator, for every operator: whenever the left
\* operand evaluates without error to a value other than nil the right
\* operand is evaluated as well, so an assignment in it takes effect even
\* when the operation then fails; when the left operand fails or evaluates
\* to nil the expression fails before the right operand is evaluated.
RightOperandEvaluatedAfterLeftValue ==
    /\ [][RightAssignsStep
            => IF LeftValue = Absent
               THEN envs' = envs /\ FailedWith("Undefined variable")
               ELSE IF LeftValue = None
               THEN envs' = envs /\ FailedWith("Left value is not a literal")
               ELSE envs'[1].values["b"] = Number(1)]_vars
    /\ [][(/\ BinaryStep({o.token_type : o \in BinaryOps})
           /\ stmt.expression.left = Variable(Ident("a"))
           /\ stmt.expression.right = Assign(Ident("b"), Literal(Number(1)))
           /\ envs[1].values["a"] = Absent
           /\ envs[1].values["b"] = Absent)
            => ret' = Err(RunTimeException(Error(1, "a", "Undefined variable")))]_vars

\* "s" - (b = 1) has failed and b is 1
AssignedBeforeFailureWitness ==
    /\ FailedExpression(Binary(Literal(String("s")), Op("Minus", "-"),
                               Assign(Ident("b"), Literal(Number(1)))))
    /\ envs[1].values["b"] = Number(1)

\* C35: a Binary node whose left operand evaluates to nil, or whose left
\* operand evaluates to a value and whose right operand evaluates to nil,
\* and a Unary node whose operand evaluates to nil, fail with a
\* RuntimeException that carries the line and the lexeme of the operator,
\* for every operator, == and != included: the step returns the error and
\* gives no value.
NilOperandFails ==
    [][(\/ /\ BinaryStep({o.token_type : o \in BinaryOps})
           /\ \/ LeftValue = None
              \/ IsLiteralValue(LeftValue) /\ RightValue = None
        \/ /\ UnaryStep
           /\ OperandValue(stmt.expression.right) = None)
        => /\ FailedWithRuntimeException
           /\ ret'.err.error.line = stmt.expression.operator.line
           /\ ret'.err.error.where_ = stmt.expression.operator.lexeme
           /\ ret'.err.error.message \in {"Left value is not a literal",
                                          "Right value is not a literal"}]_vars

\* nil == nil has failed with the error of the left operand
NilEqualsNilWitness ==
    /\ FailedExpression(Binary(Literal(None), Op("EqualEqual", "=="), Literal(None)))
    /\ ret = Err(RunTimeException(Error(1, "==", "Left value is not a literal")))

\* the next step executes a declaration with a value expression, or an
\* expression statement over an Assign node, and the evaluation of the
\* value expression fails
ValueFailsStep ==
    /\ \/ AtStmt("Var") /\ call'.op = "visit_stmt_var" /\ stmt.initializer # <<>>
       \/ /\ AtStmt("Expression") /\ call'.op = "visit_stmt_expression"
          /\ stmt.expression.node = "Assign"
    /\ evalute(envs, cur.environment, ValueOf(stmt)).res.tag = "Err"

\* C40 as claimed: the statement whose value expression fails returns that
\* error and leaves every binding of its name as it was, not bound where it
\* was not bound and with its value where it was bound.
FailedValueLeavesBinding ==
    [][ValueFailsStep
        => /\ ret' = evalute(envs, cur.environment, ValueOf(stmt)).res
           /\ frames' = frames
           /\ \A i \in DOMAIN envs :
                 envs'[i].values[NameOf(stmt)] = envs[i].values[NameOf(stmt)]]_vars

\* C40, amended: the statement whose value expression fails returns that
\* error and neither binds nor writes its name: the scopes are as the
\* evaluation of the value expression left them, so that every binding of
\* the name is as it was unless the value expression itself assigns to the
\* name.
FailedValueLeavesBindingAsEvaluated ==
    [][ValueFailsStep
        => /\ ret' = evalute(envs, cur.environment, ValueOf(stmt)).res
           /\ frames' = frames
           /\ envs' = evalute(envs, cur.environment, ValueOf(stmt)).heap
           /\ NameOf(stmt) \notin AssignedNames(ValueOf(stmt))
                 => \A i \in DOMAIN envs :
                       envs'[i].values[NameOf(stmt)] = envs[i].values[NameOf(stmt)]]_vars

\* after var a; the assignment a = -"s" has failed and a is still nil
FailedAssignWitness ==
    /\ call.op = "visit_stmt_expression"
    /\ ret.tag = "Err"
    /\ stmt = Expression(Assign(Ident("a"), Unary(Op("Minus", "-"), Literal(String("s")))))
    /\ envs[1].values["a"] = None

(***************************************************************************)
(* Properties of the Print statement (SpecEval)                           *)
(***************************************************************************)
\* the human-readable form of a value: the decimal text of a Number, true
\* or false, the text of a String, nil, NaN
Display(value) ==
    IF value = None THEN "nil"
    ELSE IF value.variant = "Number"
    THEN (IF value.num = IeeeNaN THEN "NaN"
          ELSE IF value.num = Infinity THEN "inf"
          ELSE IF value.num = -Infinity THEN "-inf"
          ELSE IF value.num < 0 THEN "-" \o ToString(-value.num)
          ELSE ToString(value.num))
    ELSE IF value.variant = "String" THEN value.str
    ELSE IF value.variant = "Boolean" THEN (IF value.bool THEN "true" ELSE "false")
    ELSE "NaN"

\* C28: a Print statement whose expression has a value writes one line, the
\* human-readable form of the value: the decimal text of a Number, true or
\* false for a Boolean, the raw text of a String, nil for the absent value
\* and NaN for the sentinel.
PrintWritesHumanReadable ==
    [][(AtStmt("Print") /\ call'.op = "visit_stmt_print" /\ ret'.tag = "Ok")
        => output' = Append(output, Display(call'.value))]_vars

====
